---- MODULE Spec2Model ----
(***************************************************************************)
(* Shift-allowance reporting backend: period and filter resolution, the    *)
(* aggregation folds, the headcount filter, sorting and the result cache,  *)
(* as implemented in src/services.                                         *)
(*                                                                         *)
(* Python values are modelled as follows.  A string (a filter value, a     *)
(* headcount range, a text column of a stored row) is a sequence of        *)
(* one-character strings.  A value of unknown shape (None | str | list |   *)
(* set, or a raised error) is a record [t, s, l, e] tagged "none", "str",  *)
(* "list", "set" or "error".  An insert-ordered dict is a sequence of      *)
(* nodes that carry their key.  A year and month pair is a record [y, m].  *)
(***************************************************************************)
EXTENDS Integers, Sequences, FiniteSets, TLC

VARIABLES
    rows,       \* shift_allowances joined to shift_mapping, in the order a query returns them
    rates,      \* shifts_amount: set of [shift, year, amount]
    shiftKeys,  \* utils.shift_config.get_all_shift_keys(): sequence of configured keys
    today,      \* date.today() as [y, m]
    cache,      \* diskcache entries: set of [key, value]
    req,        \* the request being served: [svc, ...]
    resp,       \* the response of the request just served, NoResp once it is delivered
    files,      \* the export and upload directories: set of [path, content, complete]
    workers,    \* requests served concurrently: worker -> its position in the handler
    uploaded_files  \* the uploaded_files table: sequence of [filename, status]

vars == <<rows, rates, shiftKeys, today, cache, req, resp, files, workers, uploaded_files>>

(***************************************************************************)
(* Bounds of the model.                                                    *)
(***************************************************************************)
MaxRows == 2

\* No request is being served concurrently
NoWorkers == <<>>

(***************************************************************************)
(* Generic helpers.                                                        *)
(***************************************************************************)
Range(s) == {s[i] : i \in 1..Len(s)}

Max(a, b) == IF a >= b THEN a ELSE b

RECURSIVE SumSeq(_)
SumSeq(s) == IF s = <<>> THEN 0 ELSE Head(s) + SumSeq(Tail(s))

\* Position of the first node of s whose field k equals v, 0 when there is none.
IndexBy(s, k, v) ==
    IF \E i \in 1..Len(s) : s[i][k] = v
    THEN CHOOSE i \in 1..Len(s) : s[i][k] = v /\ \A j \in 1..(i - 1) : s[j][k] # v
    ELSE 0

\* Stable insertion sort of the positions 1..Len(keys) by ascending integer key:
\* positions with equal keys keep their relative order, like Python's list.sort.
RECURSIVE InsertStable(_, _, _)
InsertStable(order, i, keys) ==
    IF order = <<>> THEN <<i>>
    ELSE IF keys[i] < keys[order[Len(order)]]
         THEN InsertStable(SubSeq(order, 1, Len(order) - 1), i, keys) \o <<order[Len(order)]>>
         ELSE order \o <<i>>

RECURSIVE SortedOrder(_, _)
SortedOrder(n, keys) ==
    IF n = 0 THEN <<>> ELSE InsertStable(SortedOrder(n - 1, keys), n, keys)

\* list.sort(key=..., reverse=...) on s, keys[i] being the integer key of s[i].
\* With reverse=True Python keeps equal keys in their original relative order,
\* which is a stable ascending sort on the negated keys.
SortPy(s, keys, reverse) ==
    LET k == [i \in 1..Len(s) |-> IF reverse THEN 0 - keys[i] ELSE keys[i]]
        order == SortedOrder(Len(s), k)
    IN  [i \in 1..Len(s) |-> s[order[i]]]

(***************************************************************************)
(* Python strings as sequences of characters.                              *)
(***************************************************************************)
SQ == "'"
DQ == "\""
ZWSP == "u200b"    \* zero-width space, not white space for str.strip
NBSP == "u00a0"    \* no-break space, white space for str.strip

Str(s) == s        \* a string literal written as a tuple of characters

WhiteSpace == {" ", NBSP}

Digits == {"0", "1", "2", "3", "4", "5", "6", "7", "8", "9"}

DigitValue(c) ==
    CASE c = "0" -> 0 [] c = "1" -> 1 [] c = "2" -> 2 [] c = "3" -> 3 [] c = "4" -> 4
      [] c = "5" -> 5 [] c = "6" -> 6 [] c = "7" -> 7 [] c = "8" -> 8 [] c = "9" -> 9

\* str.upper / str.lower on one character of the alphabet the model uses.
UpperChar(c) ==
    CASE c = "a" -> "A" [] c = "b" -> "B" [] c = "c" -> "C" [] c = "d" -> "D"
      [] c = "l" -> "L" [] c = "n" -> "N" [] c = "u" -> "U" [] c = "x" -> "X"
      [] OTHER -> c

LowerChar(c) ==
    CASE c = "A" -> "a" [] c = "B" -> "b" [] c = "C" -> "c" [] c = "D" -> "d"
      [] c = "L" -> "l" [] c = "N" -> "n" [] c = "U" -> "u" [] c = "X" -> "x"
      [] OTHER -> c

upper(s) == [i \in 1..Len(s) |-> UpperChar(s[i])]

lower(s) == [i \in 1..Len(s) |-> LowerChar(s[i])]

RECURSIVE lstrip(_)
lstrip(s) == IF s # <<>> /\ Head(s) \in WhiteSpace THEN lstrip(Tail(s)) ELSE s

RECURSIVE rstrip(_)
rstrip(s) ==
    IF s # <<>> /\ s[Len(s)] \in WhiteSpace THEN rstrip(SubSeq(s, 1, Len(s) - 1)) ELSE s

strip(s) == rstrip(lstrip(s))

\* str.replace(c, "") for a single character c
remove_char(s, c) == SelectSeq(s, LAMBDA ch : ch # c)

\* str.split(sep) for a single-character separator: the pieces between separators,
\* empty pieces included ("".split(",") is [""]).
RECURSIVE split(_, _)
split(s, sep) ==
    IF \E i \in 1..Len(s) : s[i] = sep
    THEN LET i == CHOOSE k \in 1..Len(s) : s[k] = sep /\ \A j \in 1..(k - 1) : s[j] # sep
         IN  <<SubSeq(s, 1, i - 1)>> \o split(SubSeq(s, i + 1, Len(s)), sep)
    ELSE <<s>>

\* str.split(sep, 1): at most one split
split1(s, sep) ==
    IF \E i \in 1..Len(s) : s[i] = sep
    THEN LET i == CHOOSE k \in 1..Len(s) : s[k] = sep /\ \A j \in 1..(k - 1) : s[j] # sep
         IN  <<SubSeq(s, 1, i - 1), SubSeq(s, i + 1, Len(s))>>
    ELSE <<s>>

isdigit(s) == s # <<>> /\ \A i \in 1..Len(s) : s[i] \in Digits

RECURSIVE int(_)
int(s) == IF s = <<>> THEN 0 ELSE 10 * int(SubSeq(s, 1, Len(s) - 1)) + DigitValue(s[Len(s)])

contains(s, c) == \E i \in 1..Len(s) : s[i] = c

\* SQL LIKE '%p%' for a pattern without wildcards of its own
is_substring(p, s) ==
    \E i \in 1..(Len(s) + 1) : i + Len(p) - 1 <= Len(s) /\ SubSeq(s, i, i + Len(p) - 1) = p

\* The characters of the model in code-point order; a string's sort key is its
\* first three characters read as digits in base 64, which orders strings of up
\* to three characters as Python compares them.
Alphabet ==
    <<" ", "'", "+", ",", "-", "0", "1", "2", "3", "4", "5", "6", "7", "8", "9",
      "A", "B", "C", "D", "E", "L", "N", "P", "U", "X",
      "a", "b", "c", "d", "e", "l", "n", "p", "u", "x">>

CharCode(c) == CHOOSE i \in 1..Len(Alphabet) : Alphabet[i] = c

StrKey(s) ==
    LET code(i) == IF i <= Len(s) THEN CharCode(s[i]) ELSE 0
    IN  code(1) * 64 * 64 + code(2) * 64 + code(3)

(***************************************************************************)
(* Python values of unknown shape: None, a string, or a list of strings.   *)
(***************************************************************************)
PyNone == [t |-> "none", s |-> <<>>, l |-> <<>>, e |-> {}]
PyStr(s) == [t |-> "str", s |-> s, l |-> <<>>, e |-> {}]
PyList(l) == [t |-> "list", s |-> <<>>, l |-> l, e |-> {}]
PySet(e) == [t |-> "set", s |-> <<>>, l |-> <<>>, e |-> e]
\* the call raised (HTTPException or TypeError); s names the error
PyErr(s) == [t |-> "error", s |-> s, l |-> <<>>, e |-> {}]

\* bool(value) for these shapes
Truthy(v) ==
    CASE v.t = "none" -> FALSE
      [] v.t = "str" -> v.s # <<>>
      [] v.t = "list" -> v.l # <<>>
      [] v.t = "set" -> v.e # {}
      [] OTHER -> FALSE

(***************************************************************************)
(* Filter Normalizer.                                                      *)
(***************************************************************************)
unquote_once(s) ==
    IF Len(s) >= 2 /\ s[1] = s[Len(s)] /\ s[1] \in {SQ, DQ}
    THEN strip(SubSeq(s, 2, Len(s) - 1))
    ELSE s

\* the end of clean_str: quote-only strings and NULL / NONE / NAN are ""
null_to_empty(s) ==
    IF s \in {<<SQ>>, <<SQ, SQ>>, <<DQ>>, <<DQ, DQ>>} THEN <<>>
    ELSE IF upper(s) \in {<<"N", "U", "L", "L">>, <<"N", "O", "N", "E">>, <<"N", "A", "N">>}
         THEN <<>>
         ELSE s

\* clean_str on a string (clean_str(None) is ""): strip, drop zero-width and no-break
\* spaces, strip, unquote twice, then the empty-like values
clean_str(v) ==
    null_to_empty(unquote_once(unquote_once(
        strip(remove_char(remove_char(strip(v), ZWSP), NBSP)))))

ALL == <<"A", "L", "L">>

_is_all(value) ==
    CASE value.t = "none" -> TRUE
      [] value.t = "str" -> upper(strip(value.s)) = ALL
      [] value.t = "list" ->
            \/ Len(value.l) = 0
            \/ Len(value.l) = 1 /\ upper(strip(value.l[1])) = ALL
      [] OTHER -> FALSE

\* dashboard_service._normalize_to_list: list[str], or None for ALL
_normalize_to_list(value) ==
    IF _is_all(value) THEN PyNone
    ELSE CASE value.t = "str" ->
                LET s == clean_str(value.s) IN IF s # <<>> THEN PyList(<<s>>) ELSE PyNone
           [] value.t = "list" ->
                LET cleaned == [i \in 1..Len(value.l) |-> clean_str(value.l[i])]
                    out == SelectSeq(cleaned, LAMBDA x : x # <<>>)
                IN  IF out # <<>> THEN PyList(out) ELSE PyNone
           [] OTHER -> PyNone

\* re.split(r"[,\|]", s)
RECURSIVE comma_pipe_split(_)
comma_pipe_split(s) ==
    IF \E i \in 1..Len(s) : s[i] \in {",", "|"}
    THEN LET i == CHOOSE k \in 1..Len(s) :
                    s[k] \in {",", "|"} /\ \A j \in 1..(k - 1) : s[j] \notin {",", "|"}
         IN  <<SubSeq(s, 1, i - 1)>> \o comma_pipe_split(SubSeq(s, i + 1, Len(s)))
    ELSE <<s>>

\* search_service._normalize_to_list
search_normalize_to_list(value) ==
    IF value.t = "none" THEN PyNone
    ELSE LET raw_items == IF value.t = "list" THEN value.l ELSE comma_pipe_split(value.s)
             stripped == [i \in 1..Len(raw_items) |-> strip(raw_items[i])]
             vals0 == SelectSeq(stripped, LAMBDA v : v # <<>>)
             vals == SelectSeq(vals0, LAMBDA v : upper(v) # ALL)
         IN  IF vals # <<>> THEN PyList(vals) ELSE PyNone

\* client_summary_download_service._normalize_multi_str_or_list: set[str] or None
_normalize_multi_str_or_list(value) ==
    CASE value.t = "none" -> PyNone
      [] value.t = "str" ->
            IF upper(strip(value.s)) = ALL THEN PyNone
            ELSE LET pieces == split(value.s, ",")
                     parts == SelectSeq([i \in 1..Len(pieces) |-> strip(pieces[i])],
                                        LAMBDA x : x # <<>>)
                 IN  IF parts # <<>> THEN PySet(Range(parts)) ELSE PyNone
      [] value.t = "list" ->
            LET parts == SelectSeq([i \in 1..Len(value.l) |-> strip(value.l[i])],
                                   LAMBDA x : x # <<>>)
            IN  IF Len(parts) = 1 /\ upper(parts[1]) = ALL THEN PyNone
                ELSE IF parts # <<>> THEN PySet(Range(parts)) ELSE PyNone
      [] OTHER -> PyNone

(***************************************************************************)
(* Stored data.  A row is one shift_mapping row joined to its              *)
(* shift_allowances row: [emp_id, client, department, client_partner,      *)
(* shift_type, days, ym].  A rate is [shift_type, payroll_year, amount].   *)
(***************************************************************************)
YM(y, m) == [y |-> y, m |-> m]

\* strftime("%Y-%m") orders periods as (year, month): a period as one integer
MonthIndex(ym) == ym.y * 12 + (ym.m - 1)

YMOfIndex(i) == [y |-> i \div 12, m |-> (i % 12) + 1]

\* ShiftsAmount.amount of the outer join on (shift_type, year of duration_month):
\* 0 stands for None, which float(row.amount or 0.0) turns into 0.0
JoinedAmount(rateTable, shift_type, year) ==
    IF \E r \in rateTable : r.shift_type = shift_type /\ r.payroll_year = year
    THEN (CHOOSE r \in rateTable : r.shift_type = shift_type /\ r.payroll_year = year).amount
    ELSE 0

(***************************************************************************)
(* client_summary_service: the aggregation fold.                           *)
(***************************************************************************)
\* get_shift_keys(): configured keys, cleaned and upper-cased
get_shift_keys(keys) == [i \in 1..Len(keys) |-> upper(clean_str(keys[i]))]

empty_shift_totals(shift_keys) == [k \in Range(shift_keys) |-> 0]

NewMonthNode(month, shift_keys) ==
    [month |-> month,
     clients |-> <<>>,
     month_total |-> [shifts |-> empty_shift_totals(shift_keys),
                      total_head_count |-> 0,
                      total_allowance |-> 0]]

NewClientNode(client_name, partner, shift_keys) ==
    [client_name |-> client_name,
     departments |-> <<>>,
     client_head_count |-> 0,
     client_total |-> 0,
     client_partner |-> partner,
     shifts |-> empty_shift_totals(shift_keys)]

NewDeptNode(dept_name, shift_keys) ==
    [dept_name |-> dept_name,
     dept_head_count |-> 0,
     dept_total |-> 0,
     employees |-> <<>>,      \* _emp_map.values(), in insertion order
     shifts |-> empty_shift_totals(shift_keys)]

NewEmpEntry(eid, partner, shift_keys) ==
    [emp_id |-> eid,
     client_partner |-> partner,
     total |-> 0,
     shifts |-> empty_shift_totals(shift_keys)]

\* d.setdefault(key, node): the node under the key, the fresh node when there is none
Lookup(seq, k, key, node) ==
    IF IndexBy(seq, k, key) = 0 THEN node ELSE seq[IndexBy(seq, k, key)]

\* d[key] = v: a new key goes last, a known key keeps its place
Upsert(seq, k, key, v) ==
    IF IndexBy(seq, k, key) = 0
    THEN Append(seq, v)
    ELSE [seq EXCEPT ![IndexBy(seq, k, key)] = v]

\* The entry takes the row's value in place of adding it
AddToEmp_overwrite(e, shift_key, value) ==
    [e EXCEPT !.shifts[shift_key] = value, !.total = value]

\* emp_entry[shift_key] += value; emp_entry["total"] += value
AddToEmp(e, shift_key, value) ==
    [e EXCEPT !.shifts[shift_key] = @ + value, !.total = @ + value]

\* Every row gets an employee entry of its own
AddToDept_entry_per_row(d, eid, partner, shift_key, value, shift_keys) ==
    [d EXCEPT !.employees = Append(@, AddToEmp(NewEmpEntry(eid, partner, shift_keys),
                                               shift_key, value)),
              !.shifts[shift_key] = @ + value,
              !.dept_total = @ + value]

\* lines 418-459: the department of the row, its employee entry and totals
AddToDept(d, eid, partner, shift_key, value, shift_keys) ==
    [d EXCEPT !.employees = Upsert(@, "emp_id", eid,
                                   AddToEmp(Lookup(@, "emp_id", eid,
                                                   NewEmpEntry(eid, partner, shift_keys)),
                                            shift_key, value)),
              !.shifts[shift_key] = @ + value,
              !.dept_total = @ + value]

\* lines 404-459: the client of the row, its department, and the row's value
AddToClients(clients, client_name, dept_name, eid, partner, shift_key, value, shift_keys) ==
    Upsert(clients, "client_name", client_name,
           [Lookup(clients, "client_name", client_name,
                   NewClientNode(client_name, partner, shift_keys))
               EXCEPT !.departments =
                   Upsert(@, "dept_name", dept_name,
                          AddToDept(Lookup(@, "dept_name", dept_name,
                                           NewDeptNode(dept_name, shift_keys)),
                                    eid, partner, shift_key, value, shift_keys))])

\* lines 383-459: one iteration of "for row in rows"; a row whose shift is not
\* configured leaves its month node behind and adds nothing (continue)
AddToMonth(n, row, rateTable, shift_keys) ==
    IF upper(clean_str(row.shift_type)) \notin Range(shift_keys) THEN n
    ELSE [n EXCEPT !.clients =
             AddToClients(@, clean_str(row.client),
                          clean_str(row.department), clean_str(row.emp_id),
                          clean_str(row.client_partner),
                          upper(clean_str(row.shift_type)),
                          row.days * JoinedAmount(rateTable, row.shift_type, row.ym.y),
                          shift_keys)]

\* lines 383-459: the month node of the row is found or made, then updated
SummaryFoldRow(aggregated, row, rateTable, shift_keys) ==
    Upsert(aggregated, "month", row.ym,
           AddToMonth(Lookup(aggregated, "month", row.ym,
                             NewMonthNode(row.ym, shift_keys)),
                      row, rateTable, shift_keys))

RECURSIVE SummaryFold(_, _, _, _)
SummaryFold(aggregated, rs, rateTable, shift_keys) ==
    IF rs = <<>> THEN aggregated
    ELSE SummaryFold(SummaryFoldRow(aggregated, Head(rs), rateTable, shift_keys),
                     Tail(rs), rateTable, shift_keys)

(***************************************************************************)
(* client_summary_service: filters, periods, headcount ranges.             *)
(***************************************************************************)
Raised(v) == v.t = "error"

\* lines 281-287: clients_list
summary_clients_list(clients_raw) ==
    CASE clients_raw.t = "str" ->
            IF clients_raw.s = ALL THEN PyList(<<>>)
            ELSE LET pieces == split(clients_raw.s, ",")
                     kept == SelectSeq(pieces, LAMBDA c : strip(c) # <<>>)
                 IN  PyList([i \in 1..Len(kept) |-> strip(kept[i])])
      [] clients_raw.t = "list" ->
            LET kept == SelectSeq(clients_raw.l, LAMBDA c : c # <<>>)
            IN  PyList([i \in 1..Len(kept) |-> strip(kept[i])])
      [] OTHER -> PyList(<<>>)

\* lines 289-295: departments_list
summary_departments_list(departments_raw) ==
    CASE departments_raw.t = "str" ->
            IF departments_raw.s = ALL THEN PyList(<<>>)
            ELSE PyList(<<strip(departments_raw.s)>>)
      [] departments_raw.t = "list" ->
            LET kept == SelectSeq(departments_raw.l, LAMBDA d : d # <<>>)
            IN  PyList([i \in 1..Len(kept) |-> strip(kept[i])])
      [] OTHER -> PyList(<<>>)

\* lines 300-310: allowed_shifts_for_filter as a set, or the error raised
summary_allowed_shifts(shifts, shift_keys) ==
    IF shifts = PyStr(ALL) THEN PySet(Range(shift_keys))
    ELSE IF shifts.t = "none" THEN PyErr("TypeError")      \* list(None)
    ELSE LET sel == IF shifts.t = "str" THEN <<shifts.s>> ELSE shifts.l
             shifts_upper == [i \in 1..Len(sel) |-> upper(clean_str(sel[i]))]
             invalid_shifts == SelectSeq(shifts_upper, LAMBDA s : s \notin Range(shift_keys))
         IN  IF invalid_shifts # <<>> THEN PyErr("400 Invalid shift(s)")
             ELSE PySet(Range(shifts_upper))

\* one item of parse_headcount_ranges: [ok, start, end]
summary_parse_range(h) ==
    IF contains(h, "-")
    THEN LET parts == split(h, "-")
         IN  IF Len(parts) # 2 \/ ~isdigit(parts[1]) \/ ~isdigit(parts[2])
             THEN [ok |-> FALSE, start |-> 0, end |-> 0]
             ELSE IF int(parts[1]) > int(parts[2])
                  THEN [ok |-> FALSE, start |-> 0, end |-> 0]
                  ELSE [ok |-> TRUE, start |-> int(parts[1]), end |-> int(parts[2])]
    ELSE IF isdigit(h)
         THEN [ok |-> TRUE, start |-> int(h), end |-> int(h)]
         ELSE [ok |-> FALSE, start |-> 0, end |-> 0]

\* parse_headcount_ranges: [t |-> "none"] for ALL, [t |-> "ranges", r |-> <<[start, end]>>],
\* or [t |-> "error"]
parse_headcount_ranges(headcounts_payload) ==
    IF headcounts_payload = PyStr(ALL) THEN [t |-> "none", r |-> <<>>]
    ELSE IF headcounts_payload.t = "none" THEN [t |-> "error", r |-> <<>>]  \* iterating None
    ELSE LET items == IF headcounts_payload.t = "str" THEN <<headcounts_payload.s>>
                      ELSE headcounts_payload.l
             parsed == [i \in 1..Len(items) |-> summary_parse_range(items[i])]
         IN  IF \E i \in 1..Len(items) : ~parsed[i].ok THEN [t |-> "error", r |-> <<>>]
             ELSE [t |-> "ranges",
                   r |-> [i \in 1..Len(items) |-> [start |-> parsed[i].start,
                                                   end |-> parsed[i].end]]]

\* range_matches(hc, ranges): no ranges (None or an empty list) match everything
range_matches(hc, ranges) ==
    IF ranges.r = <<>> THEN TRUE
    ELSE \E i \in 1..Len(ranges.r) : ranges.r[i].start <= hc /\ hc <= ranges.r[i].end

\* sorted({int(v) for v in values})
RECURSIVE SortedSet(_)
SortedSet(S) ==
    IF S = {} THEN <<>>
    ELSE LET lo == CHOOSE x \in S : \A z \in S : x <= z
         IN  <<lo>> \o SortedSet(S \ {lo})

\* The rows a client_summary_service query matches, without the period clause
\* (lines 350-367, and 250-267 for the latest-month query).
SummaryRowMatches(row, clients_list, departments_list, emp_id, client_partner, allowed) ==
    /\ clients_list # <<>> =>
          lower(row.client) \in {lower(clients_list[i]) : i \in 1..Len(clients_list)}
    /\ departments_list # <<>> =>
          lower(row.department) \in {lower(departments_list[i]) : i \in 1..Len(departments_list)}
    /\ Truthy(emp_id) =>
          LET ids == IF emp_id.t = "list" THEN emp_id.l ELSE <<emp_id.s>>
          IN  lower(row.emp_id) \in {lower(clean_str(ids[i])) : i \in 1..Len(ids)}
    /\ allowed # {} => upper(row.shift_type) \in allowed
    /\ Truthy(client_partner) =>
          LET parts == IF client_partner.t = "list" THEN client_partner.l
                       ELSE <<client_partner.s>>
              like_parts == SelectSeq([i \in 1..Len(parts) |-> clean_str(parts[i])],
                                      LAMBDA x : x # <<>>)
          IN  like_parts # <<>> =>
                 \E i \in 1..Len(like_parts) :
                     is_substring(lower(like_parts[i]), lower(row.client_partner))

\* The filters of a request as one record, and the rows they match
SummaryFilters(payload, allowed) ==
    [clients_list |-> summary_clients_list(payload.clients).l,
     departments_list |-> summary_departments_list(payload.departments).l,
     emp_id |-> payload.emp_id,
     client_partner |-> payload.client_partner,
     allowed |-> allowed]

SummaryMatches(row, flt) ==
    SummaryRowMatches(row, flt.clients_list, flt.departments_list, flt.emp_id,
                      flt.client_partner, flt.allowed)

\* The years and months are paired by position
year_month_zip(years, months) ==
    [k \in 1..(IF Len(years) <= Len(months) THEN Len(years) ELSE Len(months)) |->
        YM(years[k], months[k])]

\* lines 233-236: for y in years: for m in months: periods.append(date(y, m, 1))
year_month_product(years, months) ==
    [k \in 1..(Len(years) * Len(months)) |->
        YM(years[((k - 1) \div Len(months)) + 1], months[((k - 1) % Len(months)) + 1])]

\* resolve_target_months: the periods as [y, m], in the order the code builds them
resolve_target_months(rs, todayYM, years_raw, months_raw, flt) ==
    IF years_raw # <<>> \/ months_raw # <<>>
    THEN LET years == SortedSet(Range(years_raw))
             months == SortedSet(Range(months_raw))
         IN  IF years # <<>> /\ months # <<>>
             THEN year_month_product(years, months)
             ELSE IF years # <<>>
                  THEN [k \in 1..(Len(years) * 12) |->
                           YM(years[((k - 1) \div 12) + 1], ((k - 1) % 12) + 1)]
                  ELSE [k \in 1..Len(months) |-> YM(todayYM.y, months[k])]
    ELSE LET have == {MonthIndex(rs[i].ym) : i \in {j \in 1..Len(rs) : SummaryMatches(rs[j], flt)}}
         IN  IF have = {} THEN <<>>
             ELSE <<YMOfIndex(CHOOSE x \in have : \A z \in have : z <= x)>>

(***************************************************************************)
(* client_summary_service: finalisation, headcount filter, sort, totals.   *)
(***************************************************************************)
\* lines 468-477: employees list and dept_head_count of every department
FinalizeDepartments(client) ==
    [client EXCEPT !.departments =
        [i \in 1..Len(client.departments) |->
            [client.departments[i] EXCEPT
                !.dept_head_count = Len(client.departments[i].employees)]]]

\* lines 486-492: the non-empty employee ids over the client's departments
ClientUniqueEmpIds(client) ==
    UNION {{client.departments[i].employees[j].emp_id :
                j \in 1..Len(client.departments[i].employees)} :
           i \in 1..Len(client.departments)} \ {<<>>}

\* The client keeps the totals of its template
WithClientTotals_template(client, shift_keys) ==
    [client EXCEPT !.client_head_count = Cardinality(ClientUniqueEmpIds(client))]

\* lines 483-500: the client's totals from its departments
WithClientTotals(client, shift_keys) ==
    LET depts == client.departments
    IN  [client EXCEPT
            !.client_total = SumSeq([i \in 1..Len(depts) |-> depts[i].dept_total]),
            !.client_head_count = Cardinality(ClientUniqueEmpIds(client)),
            !.shifts = [k \in Range(shift_keys) |->
                            SumSeq([i \in 1..Len(depts) |-> depts[i].shifts[k]])]]

\* lines 479-504: clients whose head count matches no range are left out
HeadcountFilterClients(clients, ranges, shift_keys) ==
    LET kept == SelectSeq(clients,
                          LAMBDA c : range_matches(Cardinality(ClientUniqueEmpIds(c)), ranges))
    IN  [i \in 1..Len(kept) |-> WithClientTotals(kept[i], shift_keys)]

\* lines 511-518
actual_sort_field(sort_by) ==
    CASE sort_by = "total_allowance" -> "client_total"
      [] sort_by = "head_count" -> "client_head_count"
      [] OTHER -> sort_by

\* x[1].get(actual_sort_field, 0) as an integer sort key; a field the client
\* node does not have gives 0 for every client
SummarySortKey(client, field) ==
    CASE field = "client_name" -> StrKey(lower(client.client_name))
      [] field = "client_total" -> client.client_total
      [] field = "client_head_count" -> client.client_head_count
      [] field = "client_partner" -> StrKey(client.client_partner)
      [] OTHER -> 0

\* lines 507-533: reverse = sort_order != "asc"
SummarySort(clients, sort_by, sort_order) ==
    LET field == actual_sort_field(sort_by)
        reverse == sort_order # "asc"
    IN  SortPy(clients, [i \in 1..Len(clients) |-> SummarySortKey(clients[i], field)], reverse)

\* lines 535-539
MonthTotal(clients, shift_keys) ==
    [shifts |-> [k \in Range(shift_keys) |->
                    SumSeq([i \in 1..Len(clients) |-> clients[i].shifts[k]])],
     total_head_count |-> SumSeq([i \in 1..Len(clients) |-> clients[i].client_head_count]),
     total_allowance |-> SumSeq([i \in 1..Len(clients) |-> clients[i].client_total])]

\* lines 466-539 for one month
SummaryFinishMonth(node, ranges, shift_keys, sort_by, sort_order) ==
    LET finalized == [i \in 1..Len(node.clients) |-> FinalizeDepartments(node.clients[i])]
        filtered == HeadcountFilterClients(finalized, ranges, shift_keys)
        sorted == SummarySort(filtered, sort_by, sort_order)
    IN  [node EXCEPT !.clients = sorted, !.month_total = MonthTotal(sorted, shift_keys)]

(***************************************************************************)
(* client_summary_service: the request.  A payload is [clients,            *)
(* departments, emp_id, client_partner, shifts, headcounts (values of      *)
(* unknown shape), years, months (lists of integers, <<>> when absent),    *)
(* sort_by, sort_order (atoms, "" when absent)].                           *)
(***************************************************************************)
\* payload.get("sort_by", "client_total"); payload.get("sort_order", "desc")
SortByOf(payload) == IF payload.sort_by = "" THEN "client_total" ELSE payload.sort_by

SortOrderOf(payload) == IF payload.sort_order = "" THEN "desc" ELSE payload.sort_order

\* lines 330-343: the response cache key of a latest-style request
response_cache_key(payload) ==
    [clients |-> payload.clients,
     departments |-> payload.departments,
     emp_id |-> payload.emp_id,
     client_partner |-> payload.client_partner,
     shifts |-> payload.shifts,
     headcounts |-> payload.headcounts,
     sort_by |-> SortByOf(payload),
     sort_order |-> SortOrderOf(payload)]

SummaryError(what) ==
    [svc |-> "summary", kind |-> "error", error |-> what, periods |-> <<>>, from_cache |-> FALSE]

SummaryNoData ==
    [svc |-> "summary", kind |-> "nodata", error |-> "", periods |-> <<>>, from_cache |-> FALSE]

SummaryOk(aggregated, hit) ==
    [svc |-> "summary", kind |-> "ok", error |-> "", periods |-> aggregated, from_cache |-> hit]

\* cache.get(key): the stored value, or PyNone
CacheGet(c, key) ==
    IF \E en \in c : en.key = key THEN (CHOOSE en \in c : en.key = key).value ELSE PyNone

\* cache.set(key, value, expire=CACHE_TTL)
CacheSet(c, key, value) == {en \in c : en.key # key} \cup {[key |-> key, value |-> value]}

\* lines 466-539 for every month of the fold
SummaryFinish(folded, payload, ranges, shift_keys) ==
    [i \in 1..Len(folded) |->
        SummaryFinishMonth(folded[i], ranges, shift_keys,
                           SortByOf(payload), SortOrderOf(payload))]

\* lines 348-539: query, fold and finish, for the months to use
SummaryAggregate(payload, rs, rateTable, shift_keys, months_to_use, flt, ranges) ==
    SummaryFinish(SummaryFold(<<>>,
                              SelectSeq(rs, LAMBDA r : SummaryMatches(r, flt)
                                                       /\ r.ym \in Range(months_to_use)),
                              rateTable, shift_keys),
                  payload, ranges, shift_keys)

\* sorting clients by "departments" compares dicts: TypeError once two clients remain
SortRaises(payload, aggregated) ==
    /\ actual_sort_field(SortByOf(payload)) = "departments"
    /\ \E i \in 1..Len(aggregated) : Len(aggregated[i].clients) >= 2

\* lines 541-544: the response is cached for a latest-style request and returned
SummaryReturn(payload, aggregated, c) ==
    IF SortRaises(payload, aggregated) THEN [resp |-> SummaryError("TypeError"), cache |-> c]
    ELSE [resp |-> SummaryOk(aggregated, FALSE),
          cache |-> IF payload.years = <<>> /\ payload.months = <<>>
                    THEN CacheSet(c, response_cache_key(payload),
                                  [t |-> "dict", d |-> aggregated])
                    ELSE c]

\* if cached_resp: a stored, non-empty response
CacheHit(c, key) == CacheGet(c, key).t = "dict" /\ CacheGet(c, key).d # <<>>

\* lines 321-544, the filters being parsed and the months resolved
SummaryServe(payload, rs, rateTable, shift_keys, c, months_to_use, flt, ranges) ==
    IF months_to_use = <<>> THEN [resp |-> SummaryNoData, cache |-> c]
    ELSE IF /\ payload.years = <<>> /\ payload.months = <<>>
            /\ CacheHit(c, response_cache_key(payload))
         THEN [resp |-> SummaryOk(CacheGet(c, response_cache_key(payload)).d, TRUE),
               cache |-> c]
         ELSE SummaryReturn(payload,
                            SummaryAggregate(payload, rs, rateTable, shift_keys,
                                             months_to_use, flt, ranges),
                            c)

\* client_summary_service(db, payload): [resp, cache]
client_summary_service(payload, rs, rateTable, keysCfg, todayYM, c) ==
    LET shift_keys == get_shift_keys(keysCfg)
        allowedV == summary_allowed_shifts(payload.shifts, shift_keys)
        ranges == parse_headcount_ranges(payload.headcounts)
        flt == SummaryFilters(payload, allowedV.e)
    IN  IF Raised(allowedV) THEN [resp |-> SummaryError(allowedV.s), cache |-> c]
        ELSE IF ranges.t = "error" THEN [resp |-> SummaryError("400 headcount"), cache |-> c]
        ELSE SummaryServe(payload, rs, rateTable, shift_keys, c,
                          resolve_target_months(rs, todayYM, payload.years, payload.months,
                                                flt),
                          flt, ranges)

NoResp == [svc |-> "none"]

NoReq == [svc |-> "none"]

(***************************************************************************)
(* dashboard_service: period validation and the fallback tiers.            *)
(* years and months are the integer lists _coerce_int_list returns; a      *)
(* warning is [year, months], the year and the future months named in the  *)
(* message.                                                                *)
(***************************************************************************)
\* list(dict.fromkeys(s)): first occurrences, in order
RECURSIVE Dedupe(_)
Dedupe(s) ==
    IF s = <<>> THEN <<>>
    ELSE LET init == Dedupe(SubSeq(s, 1, Len(s) - 1))
         IN  IF s[Len(s)] \in Range(init) THEN init ELSE Append(init, s[Len(s)])

\* sorted(set(pairs)) for a set of [y, m]
SortedPairs(S) ==
    LET idx == SortedSet({MonthIndex(p) : p \in S})
    IN  [i \in 1..Len(idx) |-> YMOfIndex(idx[i])]

\* the concatenation of a sequence of sequences
RECURSIVE Flatten(_)
Flatten(ss) == IF ss = <<>> THEN <<>> ELSE Head(ss) \o Flatten(Tail(ss))

\* _last_n_month_pairs(end_year, end_month, n): the n months ending at the given one
_last_n_month_pairs(end, n) ==
    {YMOfIndex(i) : i \in (MonthIndex(end) - (n - 1))..MonthIndex(end)}

\* the latest element of a non-empty set of [y, m]
LatestOf(S) == CHOOSE p \in S : \A q \in S : MonthIndex(q) <= MonthIndex(p)

\* _fallback_pairs_for_empty_selection: always one pair; the warnings are handed back as given
_fallback_pairs_for_empty_selection(todayYM, rs, warnings) ==
    LET stored == {rs[i].ym : i \in 1..Len(rs)}
        last_12_pairs == _last_n_month_pairs(todayYM, 12)
        in_window == stored \cap last_12_pairs
    IN  IF todayYM \in stored THEN [pairs |-> <<todayYM>>, warnings |-> warnings]
        ELSE IF in_window # {} THEN [pairs |-> <<LatestOf(in_window)>>, warnings |-> warnings]
        ELSE IF stored # {} THEN [pairs |-> <<LatestOf(stored)>>, warnings |-> warnings]
        ELSE [pairs |-> <<todayYM>>, warnings |-> warnings]

validate_years_months_with_warnings(years_in, months_in, todayYM, rs) ==
    LET years0 == SelectSeq(years_in, LAMBDA y : y # 0)
        months0 == SelectSeq(months_in, LAMBDA m : m # 0 /\ 1 <= m /\ m <= 12)
        max_month(y) == IF y = todayYM.y THEN todayYM.m ELSE 12
    IN  IF months0 # <<>> /\ years0 = <<>>
        THEN LET future_months == SortedSet({m \in Range(months0) : m > todayYM.m})
                 warnings == IF future_months # <<>>
                             THEN <<[year |-> todayYM.y, months |-> future_months]>>
                             ELSE <<>>
                 months == SelectSeq(months0, LAMBDA m : m <= todayYM.m)
             IN  IF months = <<>>
                 THEN _fallback_pairs_for_empty_selection(todayYM, rs, warnings)
                 ELSE [pairs |-> SortedPairs({YM(todayYM.y, m) : m \in Range(months)}),
                       warnings |-> warnings]
        ELSE IF years0 # <<>>
        THEN LET years == SelectSeq(years0, LAMBDA y : y <= todayYM.y)
                 years_ordered == Dedupe(years)
             IN  IF years = <<>>
                 THEN _fallback_pairs_for_empty_selection(todayYM, rs, <<>>)
                 ELSE IF months0 = <<>>
                 THEN [pairs |-> SortedPairs({p \in [y : Range(years_ordered), m : 1..12] :
                                                 p.m <= max_month(p.y)}),
                       warnings |-> <<>>]
                 ELSE LET bad_for_year(y) == SortedSet({m \in Range(months0) : m > max_month(y)})
                          warnings ==
                              Flatten([i \in 1..Len(years_ordered) |->
                                          IF bad_for_year(years_ordered[i]) # <<>>
                                          THEN <<[year |-> years_ordered[i],
                                                  months |-> bad_for_year(years_ordered[i])]>>
                                          ELSE <<>>])
                          pairs3 == {p \in [y : Range(years_ordered), m : Range(months0)] :
                                        p.m <= max_month(p.y)}
                      IN  IF pairs3 = {}
                          THEN _fallback_pairs_for_empty_selection(todayYM, rs, warnings)
                          ELSE [pairs |-> SortedPairs(pairs3), warnings |-> warnings]
        ELSE _fallback_pairs_for_empty_selection(todayYM, rs, <<>>)

(***************************************************************************)
(* dashboard_service.get_client_dashboard_summary.                         *)
(***************************************************************************)
NDASH == "u2013"
MDASH == "u2014"
MINUS == "u2212"

\* _normalize_dash: dash variants become "-"
_normalize_dash(s) == [i \in 1..Len(s) |-> IF s[i] \in {NDASH, MDASH, MINUS} THEN "-" ELSE s[i]]

\* one item of parse_headcount_limit: skipped, a limit, or HTTP 400
headcount_limit_item(item) ==
    LET s == upper(_normalize_dash(clean_str(item)))
    IN  IF s = <<>> \/ s = ALL THEN [kind |-> "skip", n |-> 0]
        ELSE IF contains(s, "-")
        THEN LET parts == split1(s, "-")
                 lo == strip(parts[1])
                 hi == strip(parts[2])
             IN  IF ~isdigit(lo) \/ ~isdigit(hi) THEN [kind |-> "error", n |-> 0]
                 ELSE IF int(lo) <= 0 \/ int(lo) > int(hi) THEN [kind |-> "error", n |-> 0]
                 ELSE [kind |-> "limit", n |-> int(hi)]
        ELSE IF ~isdigit(s) \/ int(s) <= 0 THEN [kind |-> "error", n |-> 0]
             ELSE [kind |-> "limit", n |-> int(s)]

\* parse_headcount_limit: [t |-> "none"], [t |-> "limit", n |-> max upper bound] or
\* [t |-> "error"]; validate_headcounts raises on exactly the items this rejects
parse_headcount_limit(value) ==
    IF value.t = "none" \/ _is_all(value) THEN [t |-> "none", n |-> 0]
    ELSE LET items == IF value.t = "list" THEN value.l ELSE <<value.s>>
             parsed == [i \in 1..Len(items) |-> headcount_limit_item(items[i])]
             limits == {parsed[i].n : i \in {j \in 1..Len(items) : parsed[j].kind = "limit"}}
         IN  IF \E i \in 1..Len(items) : parsed[i].kind = "error" THEN [t |-> "error", n |-> 0]
             ELSE IF limits = {} THEN [t |-> "none", n |-> 0]
             ELSE [t |-> "limit", n |-> CHOOSE x \in limits : \A z \in limits : z <= x]

\* parse_shifts (the definition in force, line 1432): None for ALL, a set, or HTTP 400
parse_shifts(value, shift_key_set) ==
    IF _is_all(value) THEN PyNone
    ELSE LET items == IF value.t = "list" THEN value.l ELSE <<value.s>>
             vs == [i \in 1..Len(items) |-> upper(clean_str(items[i]))]
             checked == IF value.t = "list" THEN SelectSeq(vs, LAMBDA v : v # <<>>) ELSE vs
         IN  IF shift_key_set # {} /\ \E i \in 1..Len(checked) : checked[i] \notin shift_key_set
             THEN PyErr("400 Invalid shift type")
             ELSE IF Range(checked) = {} THEN PyNone ELSE PySet(Range(checked))

\* SHIFT_TYPES / SHIFT_KEY_SET: the configured keys, stripped and upper-cased
SHIFT_TYPES(keysCfg) == {upper(strip(keysCfg[i])) : i \in 1..Len(keysCfg)}

\* base_filters of the dashboard query
DashboardRowMatches(row, clients_list, depts_list) ==
    /\ Truthy(clients_list) =>
          lower(strip(row.client)) \in {lower(clients_list.l[i]) : i \in 1..Len(clients_list.l)}
    /\ Truthy(depts_list) =>
          lower(strip(row.department)) \in {lower(depts_list.l[i]) : i \in 1..Len(depts_list.l)}

\* coalesce(amount, 0) of the outer join on (year, upper(trim(shift_type)))
DashboardAmount(rateTable, shift_type, year) ==
    LET hit == {r \in rateTable : /\ r.payroll_year = year
                                  /\ upper(strip(r.shift_type)) = upper(strip(shift_type))}
    IN  IF hit = {} THEN 0 ELSE (CHOOSE r \in hit : TRUE).amount

\* build_employee_limit_subquery: the limit_n employee ids with the largest allowance,
\* ties by ascending emp_id
employee_limit(rs, rateTable, limit_n) ==
    LET ids == {rs[i].emp_id : i \in 1..Len(rs)}
        emp_allowance(e) ==
            SumSeq([i \in 1..Len(rs) |->
                      IF rs[i].emp_id = e
                      THEN rs[i].days * DashboardAmount(rateTable, rs[i].shift_type, rs[i].ym.y)
                      ELSE 0])
        before(a, b) ==
            \/ emp_allowance(a) > emp_allowance(b)
            \/ emp_allowance(a) = emp_allowance(b) /\ StrKey(a) < StrKey(b)
    IN  {e \in ids : Cardinality({o \in ids : before(o, e)}) < limit_n}

\* clean_str(x) or fallback
OrElse(s, fallback) == IF s # <<>> THEN s ELSE fallback

UNKNOWN == <<"U", "N", "K", "N", "O", "W", "N">>

\* empty_node(), with its client key
DashEmptyNode(client) ==
    [client |-> client, total_allowance |-> 0, head_count |-> {}, dept_set |-> {}]

DashEmpty ==
    [total_allowance |-> 0, head_count_set |-> {}, clients |-> <<>>,
     clients_set |-> {}, depts_set |-> {}]

\* lines 1172-1186: the row's allowance and employee go to the totals and to its client
DashAddRow(dashboard, client, dept, ids, allowance) ==
    [total_allowance |-> dashboard.total_allowance + allowance,
     head_count_set |-> dashboard.head_count_set \cup ids,
     clients |-> Upsert(dashboard.clients, "client", client,
                        [Lookup(dashboard.clients, "client", client, DashEmptyNode(client))
                            EXCEPT !.total_allowance = @ + allowance,
                                   !.head_count = @ \cup ids,
                                   !.dept_set = @ \cup {dept}]),
     clients_set |-> dashboard.clients_set \cup {client},
     depts_set |-> dashboard.depts_set \cup {dept}]

\* the employee id of a row as a set: empty for a blank id (if eid:)
IdSet(eid) == IF eid # <<>> THEN {eid} ELSE {}

\* lines 1157-1186: one iteration of "for emp, client, dept, cp, shift, days, amt in rows"
DashFoldRow(dashboard, row, rateTable, shift_types, selected_shifts) ==
    IF shift_types # {} /\ upper(clean_str(row.shift_type)) \notin shift_types THEN dashboard
    ELSE IF /\ Truthy(selected_shifts)
            /\ upper(clean_str(row.shift_type)) \notin selected_shifts.e
         THEN dashboard
         ELSE DashAddRow(dashboard,
                         OrElse(clean_str(row.client), UNKNOWN),
                         OrElse(clean_str(row.department), UNKNOWN),
                         IdSet(clean_str(row.emp_id)),
                         row.days * DashboardAmount(rateTable, row.shift_type, row.ym.y))

RECURSIVE DashFold(_, _, _, _, _)
DashFold(dashboard, rs, rateTable, shift_types, selected_shifts) ==
    IF rs = <<>> THEN dashboard
    ELSE DashFold(DashFoldRow(dashboard, Head(rs), rateTable, shift_types, selected_shifts),
                  Tail(rs), rateTable, shift_types, selected_shifts)

\* finalize(node): the sets become their sizes
DashFinalize(node) ==
    [client |-> node.client, total_allowance |-> node.total_allowance,
     head_count |-> Cardinality(node.head_count), departments |-> Cardinality(node.dept_set)]

DashError(what) ==
    [svc |-> "dashboard", kind |-> "error", error |-> what, selected_periods |-> <<>>,
     messages |-> <<>>, head_count |-> 0, total_allowance |-> 0, total_clients |-> 0,
     total_departments |-> 0, clients |-> <<>>]

\* the two early returns: only selected_periods and messages
DashBare(pairs, messages) ==
    [svc |-> "dashboard", kind |-> "bare", error |-> "", selected_periods |-> pairs,
     messages |-> messages, head_count |-> 0, total_allowance |-> 0, total_clients |-> 0,
     total_departments |-> 0, clients |-> <<>>]

\* rows_q filtered by the employee limit subquery over the rows of the selected shifts
DashLimited(base, rateTable, selected_shifts, hc_limit) ==
    IF hc_limit.t # "limit" THEN base
    ELSE SelectSeq(base,
            LAMBDA r : r.emp_id \in
                employee_limit(SelectSeq(base,
                                   LAMBDA x : Truthy(selected_shifts) =>
                                       upper(strip(x.shift_type)) \in selected_shifts.e),
                               rateTable, hc_limit.n))

\* The rows rows_q returns: base filters, the periods, and the employee limit
DashboardRows(rs, rateTable, clients_list, depts_list, pairs, selected_shifts, hc_limit) ==
    DashLimited(SelectSeq(rs, LAMBDA r : /\ DashboardRowMatches(r, clients_list, depts_list)
                                         /\ r.ym \in Range(pairs)),
                rateTable, selected_shifts, hc_limit)

\* lines 1242-1293: the summary of the fold
DashSummary(dashboard, pairs, messages) ==
    [svc |-> "dashboard", kind |-> "ok", error |-> "", selected_periods |-> pairs,
     messages |-> messages,
     head_count |-> Cardinality(dashboard.head_count_set),
     total_allowance |-> dashboard.total_allowance,
     total_clients |-> Cardinality(dashboard.clients_set),
     total_departments |-> Cardinality(dashboard.depts_set),
     clients |-> [i \in 1..Len(dashboard.clients) |-> DashFinalize(dashboard.clients[i])]]

\* lines 1128-1293: the rows are folded, or there are none
DashAnswer(queried, rateTable, shift_types, selected_shifts, pairs, messages) ==
    IF queried = <<>> THEN DashBare(pairs, messages)
    ELSE DashSummary(DashFold(DashEmpty, queried, rateTable, shift_types, selected_shifts),
                     pairs, messages)

\* lines 1022-1127: filters, periods and the query
DashQuery(payload, rs, rateTable, shift_types, selected_shifts, hc_limit, resolved) ==
    IF resolved.pairs = <<>> THEN DashBare(<<>>, resolved.warnings)
    ELSE DashAnswer(DashboardRows(rs, rateTable, _normalize_to_list(payload.clients),
                                  _normalize_to_list(payload.departments), resolved.pairs,
                                  selected_shifts, hc_limit),
                    rateTable, shift_types, selected_shifts, resolved.pairs,
                    resolved.warnings)

\* lines 1015-1016: validate_shifts and validate_headcounts, then the rest
DashValidated(payload, rs, rateTable, shift_types, selected_shifts, hc_limit, todayYM) ==
    IF Raised(selected_shifts) THEN DashError(selected_shifts.s)
    ELSE IF hc_limit.t = "error" THEN DashError("400 Invalid headcount")
    ELSE DashQuery(payload, rs, rateTable, shift_types, selected_shifts, hc_limit,
                   validate_years_months_with_warnings(payload.years, payload.months,
                                                       todayYM, rs))

\* get_client_dashboard_summary(db, payload); clients is the dict of client nodes the
\* handler builds next to the summary it returns
get_client_dashboard_summary(payload, rs, rateTable, keysCfg, todayYM) ==
    DashValidated(payload, rs, rateTable, SHIFT_TYPES(keysCfg),
                  parse_shifts(payload.shifts, SHIFT_TYPES(keysCfg)),
                  parse_headcount_limit(payload.headcounts), todayYM)

(***************************************************************************)
(* client_comparision_service.get_client_total_allowances.  The handler    *)
(* walks allowance rows and their shift mappings; a stored row here is one *)
(* mapping with its allowance row, and since employees are collected in    *)
(* sets, adding the employee once per contributing mapping gives the sets  *)
(* the handler builds.  filters is [clients, departments, emp_id,          *)
(* client_partner, shifts, headcounts, years, months, sort_by, sort_order, *)
(* top (0 for None)].                                                      *)
(***************************************************************************)
\* _normalize_shifts_filter: a set of upper-case keys, or None
_normalize_shifts_filter(shifts) ==
    CASE shifts.t = "none" -> PyNone
      [] shifts.t = "str" ->
            IF upper(strip(shifts.s)) = ALL THEN PyNone ELSE PySet({upper(strip(shifts.s))})
      [] OTHER ->
            LET cleaned == {upper(strip(shifts.l[i])) :
                               i \in {j \in 1..Len(shifts.l) : strip(shifts.l[j]) # <<>>}}
            IN  IF cleaned = {} THEN PyNone ELSE PySet(cleaned)

OpenEnd == 1000000000    \* 10**9, the upper end of an "N+" rule

\* one item of _parse_headcount_filter (the definition in force, line 691):
\* [ok, start, end], ok FALSE for an item that yields no rule
comparison_parse_rule(item) ==
    LET s == strip(item)
        ab == split1(s, "-")
        none == [ok |-> FALSE, start |-> 0, end |-> 0]
    IN  IF s # <<>> /\ s[Len(s)] = "+" /\ isdigit(SubSeq(s, 1, Len(s) - 1))
        THEN [ok |-> TRUE, start |-> int(SubSeq(s, 1, Len(s) - 1)), end |-> OpenEnd]
        ELSE IF contains(s, "-")
        THEN IF isdigit(strip(ab[1])) /\ isdigit(strip(ab[2]))
                /\ int(strip(ab[1])) <= int(strip(ab[2]))
             THEN [ok |-> TRUE, start |-> int(strip(ab[1])), end |-> int(strip(ab[2]))]
             ELSE none
        ELSE IF isdigit(s) THEN [ok |-> TRUE, start |-> int(s), end |-> int(s)]
             ELSE none

\* _parse_headcount_filter: None, or the rules of the items that parse
_parse_headcount_filter(filter_value) ==
    IF filter_value.t = "none" \/ filter_value = PyStr(ALL) THEN [t |-> "none", r |-> <<>>]
    ELSE LET values == IF filter_value.t = "list" THEN filter_value.l ELSE <<filter_value.s>>
             parsed == SelectSeq([i \in 1..Len(values) |-> comparison_parse_rule(values[i])],
                                 LAMBDA x : x.ok)
         IN  IF parsed = <<>> THEN [t |-> "none", r |-> <<>>]
             ELSE [t |-> "rules",
                   r |-> [i \in 1..Len(parsed) |-> [start |-> parsed[i].start,
                                                    end |-> parsed[i].end]]]

\* _headcount_matches(value, rules)
_headcount_matches(value, rules) ==
    IF rules.t = "none" THEN TRUE
    ELSE \E i \in 1..Len(rules.r) : rules.r[i].start <= value /\ value <= rules.r[i].end

\* rates = {upper(shift_type): amount}: one rate per shift type whatever its year
ComparisonRate(rateTable, shift_key) ==
    LET hit == {r \in rateTable : upper(r.shift_type) = shift_key}
    IN  IF hit = {} THEN 0 ELSE (CHOOSE r \in hit : TRUE).amount

\* base_query: exact matches on client and department
ComparisonBaseMatches(row, filters) ==
    /\ filters.clients # PyStr(ALL) =>
          IF filters.clients.t = "list" THEN row.client \in Range(filters.clients.l)
          ELSE row.client = filters.clients.s
    /\ filters.departments # PyStr(ALL) =>
          IF filters.departments.t = "list" THEN row.department \in Range(filters.departments.l)
          ELSE row.department = filters.departments.s

\* lines 412-469: years, months and messages
ComparisonPeriods(years_in, months_in, todayYM, base) ==
    LET raw_years == IF years_in = <<0>> THEN <<>> ELSE years_in
        raw_months == IF months_in = <<0>> THEN <<>> ELSE months_in
        years == Dedupe(raw_years)
        months == Dedupe(SelectSeq(raw_months, LAMBDA m : 1 <= m /\ m <= 12))
        stored == {base[i].ym : i \in 1..Len(base)}
        recent == {p \in stored : MonthIndex(p) >= MonthIndex(todayYM) - 12}
    IN  IF years = <<>> /\ months = <<>>
        THEN IF todayYM \in stored
             THEN [years |-> <<todayYM.y>>, months |-> <<todayYM.m>>, messages |-> <<>>]
             ELSE IF recent # {}
             THEN [years |-> <<LatestOf(recent).y>>, months |-> <<LatestOf(recent).m>>,
                   messages |-> <<[kind |-> "latest available", ym |-> LatestOf(recent)]>>]
             ELSE [years |-> <<todayYM.y>>, months |-> <<todayYM.m>>, messages |-> <<>>]
        ELSE IF months # <<>> /\ years = <<>>
        THEN [years |-> <<todayYM.y>>, months |-> months, messages |-> <<>>]
        ELSE IF months = <<>>
        THEN [years |-> years, months |-> [i \in 1..12 |-> i], messages |-> <<>>]
        ELSE [years |-> years, months |-> months, messages |-> <<>>]

CompNewClient(client) == [client |-> client, total |-> 0, emps |-> {}, depts |-> <<>>]

CompNewDept(dept) == [department |-> dept, total |-> 0, emp_ids |-> {}]

Unknown == <<"U", "n", "k", "n", "o", "w", "n">>

\* lines 517-530: a contributing mapping adds its amount and the row's employee
CompAddRow(acc, client, dept, emp, amount) ==
    Upsert(acc, "client", client,
           [Lookup(acc, "client", client, CompNewClient(client))
               EXCEPT !.total = @ + amount,
                      !.emps = @ \cup emp,
                      !.depts = Upsert(@, "department", dept,
                                       [Lookup(@, "department", dept, CompNewDept(dept))
                                           EXCEPT !.total = @ + amount,
                                                  !.emp_ids = @ \cup emp])])

\* lines 501-530 for one mapping of one allowance row
CompFoldRow(acc, row, rateTable, allowed_shifts) ==
    IF row.days <= 0 THEN acc
    ELSE IF Truthy(allowed_shifts) /\ upper(row.shift_type) \notin allowed_shifts.e THEN acc
    ELSE IF row.days * ComparisonRate(rateTable, upper(row.shift_type)) <= 0 THEN acc
    ELSE CompAddRow(acc, OrElse(row.client, Unknown), OrElse(row.department, Unknown),
                    IdSet(row.emp_id),
                    row.days * ComparisonRate(rateTable, upper(row.shift_type)))

RECURSIVE CompFold(_, _, _, _)
CompFold(acc, rs, rateTable, allowed_shifts) ==
    IF rs = <<>> THEN acc
    ELSE CompFold(CompFoldRow(acc, Head(rs), rateTable, allowed_shifts),
                  Tail(rs), rateTable, allowed_shifts)

\* lines 536-562: the result entry of one client
CompResultEntry(c) ==
    LET kept == SelectSeq(c.depts, LAMBDA d : d.total > 0)
    IN  [client |-> c.client,
         headcount |-> Cardinality(c.emps),
         total_allowance |-> c.total,
         departments |-> [i \in 1..Len(kept) |->
                             [department |-> kept[i].department,
                              headcount |-> Cardinality(kept[i].emp_ids),
                              total_allowance |-> kept[i].total]]]

CompValidSortKeys == {"client", "client_partner", "headcount", "departments", "total_allowance"}

\* the sort key of a result entry; result entries carry no client_partner
CompSortKey(x, sort_by_key) ==
    CASE sort_by_key = "departments" ->
            SumSeq([i \in 1..Len(x.departments) |-> x.departments[i].total_allowance])
      [] sort_by_key = "client" -> StrKey(x.client)
      [] sort_by_key = "headcount" -> x.headcount
      [] sort_by_key = "total_allowance" -> x.total_allowance
      [] OTHER -> 0

\* lines 564-586: reverse = sort_order == "desc"
CompSort(result, sort_by_key, sort_order_in) ==
    SortPy(result, [i \in 1..Len(result) |-> CompSortKey(result[i], sort_by_key)],
           sort_order_in = "desc")

CompError(what) ==
    [svc |-> "comparison", kind |-> "error", error |-> what, years |-> <<>>, months |-> <<>>,
     messages |-> <<>>, data |-> <<>>]

\* lines 459-483: the rows of the selected periods, employees and partners
CompQuery(base, filters, period) ==
    SelectSeq(base, LAMBDA r :
        /\ r.ym.y \in Range(period.years)
        /\ r.ym.m \in Range(period.months)
        /\ Truthy(filters.emp_id) =>
              \E e \in Range(IF filters.emp_id.t = "list" THEN filters.emp_id.l
                             ELSE <<filters.emp_id.s>>) : upper(r.emp_id) = upper(e)
        /\ Truthy(filters.client_partner) =>
              \E cp \in Range(IF filters.client_partner.t = "list"
                              THEN filters.client_partner.l
                              ELSE <<filters.client_partner.s>>) :
                  is_substring(upper(cp), upper(r.client_partner)))

\* lines 536-538: the clients whose headcount matches the rules
CompKept(folded, headcount_rules) ==
    SelectSeq(folded, LAMBDA c : _headcount_matches(Cardinality(c.emps), headcount_rules))

\* lines 540-562: their result entries
CompResult(kept) == [i \in 1..Len(kept) |-> CompResultEntry(kept[i])]

\* lines 589-600: result[:top]; top 0 stands for None or "ALL", a negative top for
\* a value that is not a positive integer
CompTop(sorted, top) ==
    IF top = 0 THEN sorted
    ELSE SubSeq(sorted, 1, IF top < Len(sorted) THEN top ELSE Len(sorted))

\* lines 602-608
CompResponse(period, todayYM, data) ==
    [svc |-> "comparison", kind |-> "ok", error |-> "",
     years |-> period.years, months |-> period.months,
     messages |-> IF data = <<>> /\ period.messages = <<>>
                  THEN <<[kind |-> "no data", ym |-> todayYM]>>
                  ELSE period.messages,
     data |-> data]

\* lines 411-608, the base query being built
CompServe(filters, base, rateTable, todayYM, period, sort_by_key, sort_order_in) ==
    IF sort_by_key \notin CompValidSortKeys THEN CompError("400 sort_by")
    ELSE IF filters.top < 0 THEN CompError("400 top")
    ELSE CompResponse(period, todayYM,
            CompTop(CompSort(CompResult(CompKept(
                                 CompFold(<<>>, CompQuery(base, filters, period), rateTable,
                                          _normalize_shifts_filter(filters.shifts)),
                                 _parse_headcount_filter(filters.headcounts))),
                             sort_by_key, sort_order_in),
                    filters.top))

\* lines 421-469: the base query and the periods
CompWithBase(filters, base, rateTable, todayYM) ==
    CompServe(filters, base, rateTable, todayYM,
              ComparisonPeriods(filters.years, filters.months, todayYM, base),
              IF filters.sort_by = "" THEN "total_allowance" ELSE filters.sort_by,
              IF filters.sort_order = "" THEN "desc" ELSE filters.sort_order)

\* get_client_total_allowances(db, filters)
get_client_total_allowances(filters, rs, rateTable, todayYM) ==
    CompWithBase(filters, SelectSeq(rs, LAMBDA r : ComparisonBaseMatches(r, filters)),
                 rateTable, todayYM)

(***************************************************************************)
(* Stored data of the aggregation model: two employees, client C1 with     *)
(* departments D1 and D2, client C2 with department D1, shifts A (rate     *)
(* 500), B (rate 350) and C (configured, no rate), one stored period.      *)
(***************************************************************************)
E1 == <<"E", "1">>
E2 == <<"E", "2">>
C1 == <<"C", "1">>
C2 == <<"C", "2">>
D1 == <<"D", "1">>
D2 == <<"D", "2">>
ShiftA == <<"A">>
ShiftB == <<"B">>
ShiftC == <<"C">>

AggPeriod == [y |-> 2025, m |-> 3]

AggToday == [y |-> 2025, m |-> 6]

PartnerOf(client) == IF client = C1 THEN <<"P", "a">> ELSE <<"P", "b">>

Row(emp, client, dept, shift, days, ym) ==
    [emp_id |-> emp, client |-> client, department |-> dept,
     client_partner |-> PartnerOf(client), shift_type |-> shift, days |-> days, ym |-> ym]

AggRows ==
    {Row(e, cd[1], cd[2], sd[1], sd[2], AggPeriod) :
        e \in {E1, E2},
        cd \in {<<C1, D1>>, <<C1, D2>>, <<C2, D1>>},
        sd \in {<<ShiftA, 2>>, <<ShiftB, 1>>, <<ShiftC, 1>>}}

AggRates ==
    {[shift_type |-> ShiftA, payroll_year |-> AggPeriod.y, amount |-> 500],
     [shift_type |-> ShiftB, payroll_year |-> AggPeriod.y, amount |-> 350]}

AggShiftKeys == <<ShiftA, ShiftB, ShiftC>>

\* A payload with every filter left at its default, for one explicit period
SummaryPayload(headcounts, sort_by, sort_order, years, months) ==
    [clients |-> PyStr(ALL), departments |-> PyStr(ALL), emp_id |-> PyNone,
     client_partner |-> PyNone, shifts |-> PyStr(ALL), headcounts |-> headcounts,
     years |-> years, months |-> months, sort_by |-> sort_by, sort_order |-> sort_order]

HeadcountChoices ==
    {PyStr(ALL), PyList(<<Str(<<"1">>)>>), PyList(<<Str(<<"2", "-", "5">>)>>),
     PyList(<<Str(<<"1", "-", "1">>), Str(<<"2", "-", "2">>)>>)}

SortByChoices == {"total_allowance", "head_count", "client_name"}

SortOrderChoices == {"default", "asc", "desc"}

AggSummaryPayloads ==
    {SummaryPayload(h, "", "", <<AggPeriod.y>>, <<AggPeriod.m>>) : h \in HeadcountChoices}
    \cup {SummaryPayload(PyStr(ALL), sb, so, <<AggPeriod.y>>, <<AggPeriod.m>>) :
             sb \in SortByChoices, so \in SortOrderChoices}

DashboardPayload(headcounts, years, months) ==
    [clients |-> PyStr(ALL), departments |-> PyStr(ALL), shifts |-> PyNone,
     headcounts |-> headcounts, years |-> years, months |-> months,
     sort_by |-> "", sort_order |-> "default"]

AggDashboardPayloads ==
    {DashboardPayload(h, <<AggPeriod.y>>, <<AggPeriod.m>>) :
        h \in {PyNone, PyList(<<Str(<<"1">>)>>),
               PyList(<<Str(<<"1", "-", "1">>), Str(<<"2", "-", "2">>)>>)}}

ComparisonFilters(headcounts, years, months) ==
    [clients |-> PyStr(ALL), departments |-> PyStr(ALL), emp_id |-> PyNone,
     client_partner |-> PyNone, shifts |-> PyNone, headcounts |-> headcounts,
     years |-> years, months |-> months, sort_by |-> "", sort_order |-> "", top |-> 0]

AggComparisonFilters == {ComparisonFilters(PyNone, <<AggPeriod.y>>, <<AggPeriod.m>>)}

(***************************************************************************)
(* Actions.  The server handles one call at a time: resp holds the         *)
(* response of the call being answered until Deliver hands it over.        *)
(***************************************************************************)
\* A row is stored (an upload commits)
StoreRow(dom) ==
    /\ resp = NoResp
    /\ Len(rows) < MaxRows
    /\ \E r \in dom : rows' = Append(rows, r)
    /\ UNCHANGED <<rates, shiftKeys, today, cache, req, resp, files, workers, uploaded_files>>

\* POST /client-summary
SummaryRequest(payloads) ==
    /\ resp = NoResp
    /\ \E payload \in payloads :
        \E out \in {client_summary_service(payload, rows, rates, shiftKeys, today, cache)} :
            /\ req' = [svc |-> "summary", payload |-> payload]
            /\ resp' = out.resp
            /\ cache' = out.cache
    /\ UNCHANGED <<rows, rates, shiftKeys, today, files, workers, uploaded_files>>

\* POST /dashboard/client-dashboard-summary
DashboardRequest(payloads) ==
    /\ resp = NoResp
    /\ \E payload \in payloads :
        /\ req' = [svc |-> "dashboard", payload |-> payload]
        /\ resp' = get_client_dashboard_summary(payload, rows, rates, shiftKeys, today)
    /\ UNCHANGED <<rows, rates, shiftKeys, today, cache, files, workers, uploaded_files>>

\* POST /client-comparison/client-total-allowances
ComparisonRequest(filterSets) ==
    /\ resp = NoResp
    /\ \E filters \in filterSets :
        /\ req' = [svc |-> "comparison", payload |-> filters]
        /\ resp' = get_client_total_allowances(filters, rows, rates, today)
    /\ UNCHANGED <<rows, rates, shiftKeys, today, cache, files, workers, uploaded_files>>

\* The response goes out
Deliver ==
    /\ resp # NoResp
    /\ resp' = NoResp
    /\ req' = NoReq
    /\ UNCHANGED <<rows, rates, shiftKeys, today, cache, files, workers, uploaded_files>>

(***************************************************************************)
(* The aggregation model: rows are stored and the three aggregating        *)
(* services are asked for the stored period.                               *)
(***************************************************************************)
InitAgg ==
    /\ rows = <<>>
    /\ rates = AggRates
    /\ shiftKeys = AggShiftKeys
    /\ today = AggToday
    /\ cache = {}
    /\ req = NoReq
    /\ resp = NoResp
    /\ files = {}
    /\ workers = NoWorkers
    /\ uploaded_files = <<>>

StoreAggRow == StoreRow(AggRows)

AggSummaryRequest == SummaryRequest(AggSummaryPayloads)

AggDashboardRequest == DashboardRequest(AggDashboardPayloads)

AggComparisonRequest == ComparisonRequest(AggComparisonFilters)

NextAgg ==
    \/ StoreAggRow
    \/ AggSummaryRequest
    \/ AggDashboardRequest
    \/ AggComparisonRequest
    \/ Deliver

SpecAgg == InitAgg /\ [][NextAgg]_vars

(***************************************************************************)
(* Properties of the aggregation model.                                    *)
(***************************************************************************)
\* C1: in every summary response each department's and each client's head count is
\* the number of distinct employee ids among the stored rows of that period and
\* client (and department), not the number of those rows; in every dashboard
\* response the overall and the per-client head counts are the numbers of distinct
\* employee ids among the rows of the selected periods when no employee limit is
\* asked for, and never more than that.
C1_HeadCountIsDistinctEmployees ==
    LET Scope(month, client, depts) ==
            {k \in 1..Len(rows) : /\ rows[k].ym = month
                                  /\ rows[k].client = client
                                  /\ rows[k].department \in depts}
        Ids(S) == {rows[k].emp_id : k \in S}
        AllDepts == {rows[k].department : k \in 1..Len(rows)}
    IN  /\ (resp.svc = "summary" /\ resp.kind = "ok") =>
              \A mi \in 1..Len(resp.periods) :
                  \A ci \in 1..Len(resp.periods[mi].clients) :
                      LET node == resp.periods[mi]
                          c == node.clients[ci]
                      IN  /\ c.client_head_count =
                                Cardinality(Ids(Scope(node.month, c.client_name, AllDepts)))
                          /\ \A di \in 1..Len(c.departments) :
                                c.departments[di].dept_head_count =
                                    Cardinality(Ids(Scope(node.month, c.client_name,
                                                          {c.departments[di].dept_name})))
        /\ (resp.svc = "dashboard" /\ resp.kind = "ok") =>
              LET InPeriods == {k \in 1..Len(rows) : rows[k].ym \in Range(resp.selected_periods)}
                  unlimited == req.payload.headcounts = PyNone
              IN  /\ resp.head_count <= Cardinality(Ids(InPeriods))
                  /\ unlimited => resp.head_count = Cardinality(Ids(InPeriods))
                  /\ \A ci \in 1..Len(resp.clients) :
                        LET mine == {k \in InPeriods : rows[k].client = resp.clients[ci].client}
                        IN  /\ resp.clients[ci].head_count <= Cardinality(Ids(mine))
                            /\ unlimited => resp.clients[ci].head_count = Cardinality(Ids(mine))

\* C1 happens: a summary response shows a department with two stored rows of one
\* employee and head count 1, under a client with head count 1.
C1_Witness ==
    /\ resp.svc = "summary" /\ resp.kind = "ok"
    /\ Len(rows) = 2 /\ rows[1].emp_id = rows[2].emp_id
    /\ rows[1].client = rows[2].client /\ rows[1].department = rows[2].department
    /\ rows[1].shift_type # rows[2].shift_type
    /\ \E mi \in 1..Len(resp.periods) :
          \E ci \in 1..Len(resp.periods[mi].clients) :
              LET c == resp.periods[mi].clients[ci]
              IN  /\ c.client_head_count = 1
                  /\ \E di \in 1..Len(c.departments) : c.departments[di].dept_head_count = 1

\* C2: in every summary response a department lists each employee once; the entry's
\* per-shift amounts and total are the sums of days x rate over all stored rows of
\* that employee in that period, client and department, and the department's
\* per-shift amounts and total are the sums over all rows of the department.  The
\* rows (E1,C1,D1,A,2 days) and (E1,C1,D1,B,1 day) at rates 500 and 350 give head
\* count 1, total 1350, A = 1000 and B = 350 when no headcount range is asked for.
C2_EmployeeRowsAreSummed ==
    (resp.svc = "summary" /\ resp.kind = "ok") =>
        LET Worth(k) == rows[k].days * JoinedAmount(rates, rows[k].shift_type, rows[k].ym.y)
            Sum(S) == SumSeq([k \in 1..Len(rows) |-> IF k \in S THEN Worth(k) ELSE 0])
            example == <<Row(E1, C1, D1, ShiftA, 2, AggPeriod),
                         Row(E1, C1, D1, ShiftB, 1, AggPeriod)>>
        IN  /\ \A mi \in 1..Len(resp.periods) :
                  \A ci \in 1..Len(resp.periods[mi].clients) :
                      \A di \in 1..Len(resp.periods[mi].clients[ci].departments) :
                          LET c == resp.periods[mi].clients[ci]
                              d == c.departments[di]
                              InDept == {k \in 1..Len(rows) :
                                            /\ rows[k].ym = resp.periods[mi].month
                                            /\ rows[k].client = c.client_name
                                            /\ rows[k].department = d.dept_name}
                          IN  /\ \A i, j \in 1..Len(d.employees) :
                                    d.employees[i].emp_id = d.employees[j].emp_id => i = j
                              /\ \A i \in 1..Len(d.employees) :
                                    LET mine == {k \in InDept :
                                                    rows[k].emp_id = d.employees[i].emp_id}
                                    IN  /\ d.employees[i].total = Sum(mine)
                                        /\ \A s \in DOMAIN d.employees[i].shifts :
                                              d.employees[i].shifts[s] =
                                                 Sum({k \in mine : rows[k].shift_type = s})
                              /\ d.dept_total = Sum(InDept)
                              /\ \A s \in DOMAIN d.shifts :
                                    d.shifts[s] = Sum({k \in InDept : rows[k].shift_type = s})
            /\ (rows = example /\ req.payload.headcounts = PyStr(ALL)) =>
                  LET d == resp.periods[1].clients[1].departments[1]
                  IN  /\ d.dept_head_count = 1
                      /\ d.dept_total = 1350
                      /\ d.shifts[ShiftA] = 1000
                      /\ d.shifts[ShiftB] = 350
                      /\ Len(d.employees) = 1
                      /\ d.employees[1].shifts[ShiftA] = 1000
                      /\ d.employees[1].shifts[ShiftB] = 350

\* C2 happens: the summary of the two example rows shows one employee entry worth 1350.
C2_Witness ==
    /\ resp.svc = "summary" /\ resp.kind = "ok"
    /\ rows = <<Row(E1, C1, D1, ShiftA, 2, AggPeriod),
                Row(E1, C1, D1, ShiftB, 1, AggPeriod)>>
    /\ req.payload.headcounts = PyStr(ALL)
    /\ Len(resp.periods[1].clients[1].departments[1].employees) = 1
    /\ resp.periods[1].clients[1].departments[1].employees[1].total = 1350

\* C5: when a request names headcount ranges, a client is in the result if and only
\* if the number of distinct employees of its stored rows in the period lies inside
\* at least one of the ranges; this is asked of the summary response and of the
\* client nodes the dashboard builds.
C5_HeadcountFilterKeepsMatchingGroups ==
    LET wanted == parse_headcount_ranges(req.payload.headcounts)
        InSomeRange(n) ==
            \E i \in 1..Len(wanted.r) : wanted.r[i].start <= n /\ n <= wanted.r[i].end
        Stored == {rows[k].client : k \in {j \in 1..Len(rows) : rows[j].ym = AggPeriod}}
        Employees(c) == {rows[k].emp_id : k \in {j \in 1..Len(rows) : rows[j].client = c}}
        Shown ==
            IF resp.svc = "summary"
            THEN UNION {{resp.periods[mi].clients[ci].client_name :
                            ci \in 1..Len(resp.periods[mi].clients)} :
                        mi \in 1..Len(resp.periods)}
            ELSE {resp.clients[ci].client : ci \in 1..Len(resp.clients)}
    IN  (/\ resp.svc \in {"summary", "dashboard"}
         /\ resp.kind # "error"
         /\ req.payload.headcounts.t = "list") =>
            /\ wanted.t = "ranges"
            /\ \A c \in Stored : c \in Shown <=> InSomeRange(Cardinality(Employees(c)))

\* C6: a summary response to a request with sort_order "default" lists the clients
\* of each period in the order the fold met them in the stored rows, whatever the
\* sort_by.
C6_DefaultOrderKeepsAggregationOrder ==
    (/\ resp.svc = "summary"
     /\ resp.kind = "ok"
     /\ req.payload.sort_order = "default") =>
        \A mi \in 1..Len(resp.periods) :
            LET shown == resp.periods[mi].clients
                FirstRow(c) == CHOOSE k \in 1..Len(rows) :
                                   /\ rows[k].client = c
                                   /\ \A j \in 1..(k - 1) : rows[j].client # c
            IN  \A i, j \in 1..Len(shown) :
                    i < j => FirstRow(shown[i].client_name) < FirstRow(shown[j].client_name)

\* C7: a stored row whose shift has no rate for its year adds nothing to any total,
\* and its employee is counted all the same: the summary's department and client head
\* counts and the comparison's client headcount include every employee with a
\* stored row for the client in the period.
C7_RateLessRowStillCountsEmployee ==
    LET Employees(c) == {rows[k].emp_id : k \in {j \in 1..Len(rows) : rows[j].client = c}}
        RateLess == {k \in 1..Len(rows) :
                        JoinedAmount(rates, rows[k].shift_type, rows[k].ym.y) = 0}
        Priced == SumSeq([k \in 1..Len(rows) |->
                             rows[k].days * JoinedAmount(rates, rows[k].shift_type,
                                                         rows[k].ym.y)])
    IN  /\ (/\ resp.svc = "summary"
            /\ resp.kind = "ok"
            /\ req.payload.headcounts = PyStr(ALL)) =>
               \A k \in RateLess :
                   \E mi \in 1..Len(resp.periods) :
                       /\ resp.periods[mi].month_total.total_allowance = Priced
                       /\ \E ci \in 1..Len(resp.periods[mi].clients) :
                           LET c == resp.periods[mi].clients[ci]
                           IN  /\ c.client_name = rows[k].client
                               /\ c.client_head_count = Cardinality(Employees(rows[k].client))
                               /\ \E di \in 1..Len(c.departments) :
                                     /\ c.departments[di].dept_name = rows[k].department
                                     /\ \E e \in 1..Len(c.departments[di].employees) :
                                           c.departments[di].employees[e].emp_id
                                              = rows[k].emp_id
        /\ (resp.svc = "comparison" /\ resp.kind = "ok") =>
               \A k \in RateLess :
                   \E i \in 1..Len(resp.data) :
                       /\ resp.data[i].client = rows[k].client
                       /\ resp.data[i].headcount = Cardinality(Employees(rows[k].client))

(***************************************************************************)
(* search_service: period resolution.  A result is [kind, status, periods, *)
(* meta]; a period is [y, m]; excluded_future_periods and the month keys   *)
(* of meta are kept as periods, "YYYY-MM" being their one-to-one text.     *)
(***************************************************************************)
SearchMeta(assumed, attempted, fallback, excluded) ==
    [assumed_current_year |-> assumed,
     current_month_attempted |-> attempted,          \* <<>> is None, <<ym>> a month
     current_month_fallback_used |-> fallback,
     excluded_future_periods |-> excluded]

SearchOk(periods, meta) == [kind |-> "ok", status |-> "200", periods |-> periods, meta |-> meta]

SearchRaise(status) ==
    [kind |-> "error", status |-> status, periods |-> <<>>,
     meta |-> SearchMeta(FALSE, <<>>, <<>>, <<>>)]

\* the months that have a stored row
StoredMonths(rs) == {rs[i].ym : i \in 1..Len(rs)}

\* the i-th month before todayYM (m = today.month - i, wrapping into the year before)
MonthsBack(todayYM, i) == YMOfIndex(MonthIndex(todayYM) - i)

\* get_default_start_month: the nearest of the 12 months ending now that has a row,
\* <<>> standing for HTTP 404
get_default_start_month(todayYM, rs) ==
    IF \E i \in 0..11 : MonthsBack(todayYM, i) \in StoredMonths(rs)
    THEN <<MonthsBack(todayYM,
                      CHOOSE i \in 0..11 :
                          /\ MonthsBack(todayYM, i) \in StoredMonths(rs)
                          /\ \A j \in 0..(i - 1) : MonthsBack(todayYM, j) \notin StoredMonths(rs))>>
    ELSE <<>>

\* _validate_year_int and _validate_month_int raise HTTP 400
search_year_invalid(y, todayYM) == ~(1000 <= y /\ y <= 9999) \/ y > todayYM.y

search_month_invalid(m) == ~(1 <= m /\ m <= 12)

\* lines 129-150: the periods appended, as a set (sorted(set(periods)) follows)
search_periods(years_norm, months_norm, todayYM) ==
    IF months_norm # <<>> /\ years_norm = <<>>
    THEN {YM(todayYM.y, m) : m \in {x \in Range(months_norm) : x <= todayYM.m}}
    ELSE IF months_norm # <<>>
    THEN {p \in [y : Range(years_norm), m : Range(months_norm)] :
             ~(p.y = todayYM.y /\ p.m > todayYM.m)}
    ELSE {p \in [y : Range(years_norm), m : 1..12] :
             p.m <= (IF p.y = todayYM.y THEN todayYM.m ELSE 12)}

\* lines 129-145: meta["excluded_future_periods"], in the order the loops append
search_excluded(years_norm, months_norm, todayYM) ==
    IF months_norm = <<>> THEN <<>>
    ELSE IF years_norm = <<>>
    THEN [i \in 1..Len(SelectSeq(months_norm, LAMBDA m : m > todayYM.m)) |->
             YM(todayYM.y, SelectSeq(months_norm, LAMBDA m : m > todayYM.m)[i])]
    ELSE Flatten([k \in 1..Len(years_norm) |->
                     IF years_norm[k] # todayYM.y THEN <<>>
                     ELSE [i \in 1..Len(SelectSeq(months_norm, LAMBDA m : m > todayYM.m)) |->
                              YM(todayYM.y,
                                 SelectSeq(months_norm, LAMBDA m : m > todayYM.m)[i])]])

\* _resolve_periods_with_meta(db, years, months)
_resolve_periods_with_meta(years, months, todayYM, rs) ==
    IF years = <<>> /\ months = <<>>
    THEN IF todayYM \in StoredMonths(rs)
         THEN SearchOk(<<todayYM>>, SearchMeta(FALSE, <<todayYM>>, <<>>, <<>>))
         ELSE IF get_default_start_month(todayYM, rs) = <<>>
         THEN SearchRaise("404 No data found in the last 12 months")
         ELSE SearchOk(get_default_start_month(todayYM, rs),
                       SearchMeta(FALSE, <<todayYM>>, get_default_start_month(todayYM, rs),
                                  <<>>))
    ELSE IF \E i \in 1..Len(years) : search_year_invalid(years[i], todayYM)
    THEN SearchRaise("400 year")
    ELSE IF \E i \in 1..Len(months) : search_month_invalid(months[i])
    THEN SearchRaise("400 month")
    ELSE IF search_periods(years, months, todayYM) = {}
    THEN IF search_excluded(years, months, todayYM) # <<>>
         THEN SearchRaise("400 All requested periods are in the future")
         ELSE SearchRaise("404 No valid (year, month) periods to query")
    ELSE SearchOk(SortedPairs(search_periods(years, months, todayYM)),
                  SearchMeta(months # <<>> /\ years = <<>>, <<>>, <<>>,
                             search_excluded(years, months, todayYM)))

\* export_filtered_excel, lines 432-441: the nearest of the 12 months before the
\* current one in which a row passes the filters, <<>> when there is none
export_found(todayYM, base) ==
    IF \E i \in 1..12 : MonthsBack(todayYM, i) \in StoredMonths(base)
    THEN <<MonthsBack(todayYM,
                      CHOOSE i \in 1..12 :
                          /\ MonthsBack(todayYM, i) \in StoredMonths(base)
                          /\ \A j \in 1..(i - 1) : MonthsBack(todayYM, j) \notin StoredMonths(base))>>
    ELSE <<>>

\* lines 425-457: periods and meta of an export; base is the rows that pass the
\* filters other than the period
export_periods(years, months, todayYM, rs, base) ==
    IF years = <<>> /\ months = <<>>
    THEN IF todayYM \in StoredMonths(base)
         THEN SearchOk(<<todayYM>>, SearchMeta(FALSE, <<todayYM>>, <<>>, <<>>))
         ELSE IF export_found(todayYM, base) = <<>>
         THEN SearchRaise("404 No data found for selected period/filters in the last 12 months.")
         ELSE SearchOk(export_found(todayYM, base),
                       SearchMeta(FALSE, <<todayYM>>, export_found(todayYM, base), <<>>))
    ELSE _resolve_periods_with_meta(years, months, todayYM, rs)

\* lines 459-468: the messages built from meta
export_messages(meta) ==
    (IF meta.assumed_current_year THEN <<[kind |-> "assumed current year"]>> ELSE <<>>)
    \o (IF meta.excluded_future_periods # <<>>
        THEN <<[kind |-> "excluded future periods", periods |-> meta.excluded_future_periods]>>
        ELSE <<>>)
    \o (IF meta.current_month_attempted # <<>> /\ meta.current_month_fallback_used # <<>>
        THEN <<[kind |-> "fell back", attempted |-> meta.current_month_attempted[1],
                used |-> meta.current_month_fallback_used[1]]>>
        ELSE <<>>)

(***************************************************************************)
(* client_comparision_service._resolve_periods_and_messages.               *)
(***************************************************************************)
\* the selection of one month found by a fallback tier, with its message
comparison_fallback(kind, ym) ==
    [years |-> <<ym.y>>, months |-> <<ym.m>>, messages |-> <<[kind |-> kind, ym |-> ym]>>]

\* duration_month >= cutoff, the first of the month twelve months back
comparison_last_12(todayYM, base) ==
    {p \in StoredMonths(base) : MonthIndex(p) >= MonthIndex(todayYM) - 12}

\* lines 778-821: nothing selected; base is the rows of base_query
comparison_default_periods(todayYM, base) ==
    IF todayYM \in StoredMonths(base)
    THEN [years |-> <<todayYM.y>>, months |-> <<todayYM.m>>, messages |-> <<>>]
    ELSE IF comparison_last_12(todayYM, base) # {}
    THEN comparison_fallback("latest available month in last 12 months",
                             LatestOf(comparison_last_12(todayYM, base)))
    ELSE IF StoredMonths(base) # {}
    THEN comparison_fallback("latest available month in the database",
                             LatestOf(StoredMonths(base)))
    ELSE [years |-> <<todayYM.y>>, months |-> <<todayYM.m>>,
          messages |-> <<[kind |-> "no data in the database", ym |-> todayYM]>>]

\* lines 823-830: the selected pairs that are not in the future
comparison_not_future(sel, todayYM) ==
    {p \in [y : Range(sel.years), m : Range(sel.months)] :
        ~(p.y > todayYM.y \/ (p.y = todayYM.y /\ p.m > todayYM.m))}

\* lines 836-852: sorted(set(pairs)), months_by_year being pairs grouped by year
comparison_result(pairs, messages) ==
    [final_years |-> SortedSet({p.y : p \in pairs}),
     pairs |-> SortedPairs(pairs),
     messages |-> messages]

\* lines 823-852: every selected pair is kept when all of them are in the future
comparison_pairs(sel, todayYM) ==
    comparison_result(IF comparison_not_future(sel, todayYM) # {}
                      THEN comparison_not_future(sel, todayYM)
                      ELSE [y : Range(sel.years), m : Range(sel.months)],
                      sel.messages)

\* lines 761-830: the selection before the future pairs are dropped
comparison_selection(years, months, todayYM, base) ==
    IF years = <<>> /\ months = <<>> THEN comparison_default_periods(todayYM, base)
    ELSE IF months # <<>> /\ years = <<>>
    THEN [years |-> <<todayYM.y>>, months |-> months, messages |-> <<>>]
    ELSE IF months = <<>>
    THEN [years |-> years, months |-> [i \in 1..12 |-> i], messages |-> <<>>]
    ELSE [years |-> years, months |-> months, messages |-> <<>>]

\* _resolve_periods_and_messages(db, base_query, filters, today); months_by_year is
\* pairs grouped by year
_resolve_periods_and_messages(years_in, months_in, todayYM, base) ==
    comparison_pairs(
        comparison_selection(
            Dedupe(IF years_in = <<0>> THEN <<>> ELSE years_in),
            Dedupe(SelectSeq(IF months_in = <<0>> THEN <<>> ELSE months_in,
                             LAMBDA m : 1 <= m /\ m <= 12)),
            todayYM, base),
        todayYM)

(***************************************************************************)
(* The period model: rows of several months are stored and each service's  *)
(* period resolver is applied to year and month selections.                *)
(***************************************************************************)
PeriodToday == [y |-> 2025, m |-> 6]

\* stored months: long ago, within the last year, the current one, and one after
\* it (an upload takes any duration month)
PeriodMonths == {YM(2023, 12), YM(2024, 6), YM(2025, 3), YM(2025, 6), YM(2025, 9)}

PeriodRows == {Row(E1, C1, D1, ShiftA, 1, ym) : ym \in PeriodMonths}

YearChoices == {<<>>, <<2024>>, <<2025>>, <<2024, 2025>>, <<2025, 2024>>, <<2024, 2024>>,
                <<2026>>}

MonthChoices == {<<>>, <<1>>, <<1, 2>>, <<2, 1>>, <<2, 2>>, <<7>>, <<3, 7>>}

\* no filter but the period: every stored row matches
NoFilters ==
    [clients_list |-> <<>>, departments_list |-> <<>>, emp_id |-> PyNone,
     client_partner |-> PyNone, allowed |-> {}]

PeriodReq(years, months) == [svc |-> "periods", years |-> years, months |-> months]

PeriodResp(by, kind, periods, messages) ==
    [svc |-> "periods", by |-> by, kind |-> kind, periods |-> periods, messages |-> messages]

InitPeriod ==
    /\ rows = <<>>
    /\ rates = AggRates
    /\ shiftKeys = AggShiftKeys
    /\ today = PeriodToday
    /\ cache = {}
    /\ req = NoReq
    /\ resp = NoResp
    /\ files = {}
    /\ workers = NoWorkers
    /\ uploaded_files = <<>>

StorePeriodRow == StoreRow(PeriodRows)

\* dashboard_service: pairs, messages = validate_years_months_with_warnings(payload, db)
DashboardPeriods ==
    /\ resp = NoResp
    /\ \E years \in YearChoices, months \in MonthChoices :
        \E out \in {validate_years_months_with_warnings(years, months, today, rows)} :
            /\ req' = PeriodReq(years, months)
            /\ resp' = PeriodResp("dashboard", "ok", out.pairs, out.warnings)
    /\ UNCHANGED <<rows, rates, shiftKeys, today, cache, files, workers, uploaded_files>>

\* client_summary_service: months_to_use = resolve_target_months(...)
SummaryPeriods ==
    /\ resp = NoResp
    /\ \E years \in YearChoices, months \in MonthChoices :
        /\ req' = PeriodReq(years, months)
        /\ resp' = PeriodResp("summary", "ok",
                              resolve_target_months(rows, today, years, months, NoFilters),
                              <<>>)
    /\ UNCHANGED <<rows, rates, shiftKeys, today, cache, files, workers, uploaded_files>>

\* search_service: periods, meta = _resolve_periods_with_meta(db, years, months)
SearchPeriods ==
    /\ resp = NoResp
    /\ \E years \in YearChoices, months \in MonthChoices :
        \E out \in {_resolve_periods_with_meta(years, months, today, rows)} :
            /\ req' = PeriodReq(years, months)
            /\ resp' = PeriodResp("search", out.kind, out.periods, export_messages(out.meta))
    /\ UNCHANGED <<rows, rates, shiftKeys, today, cache, files, workers, uploaded_files>>

\* search_service.export_filtered_excel, lines 425-468, for a request without filters
ExportPeriods ==
    /\ resp = NoResp
    /\ \E years \in YearChoices, months \in MonthChoices :
        \E out \in {export_periods(years, months, today, rows, rows)} :
            /\ req' = PeriodReq(years, months)
            /\ resp' = PeriodResp("export", out.kind, out.periods, export_messages(out.meta))
    /\ UNCHANGED <<rows, rates, shiftKeys, today, cache, files, workers, uploaded_files>>

\* client_comparision_service: _resolve_periods_and_messages(db, q, filters, today)
ComparisonPeriodsResolved ==
    /\ resp = NoResp
    /\ \E years \in YearChoices, months \in MonthChoices :
        \E out \in {_resolve_periods_and_messages(years, months, today, rows)} :
            /\ req' = PeriodReq(years, months)
            /\ resp' = PeriodResp("comparison", "ok", out.pairs, out.messages)
    /\ UNCHANGED <<rows, rates, shiftKeys, today, cache, files, workers, uploaded_files>>

NextPeriod ==
    \/ StorePeriodRow
    \/ DashboardPeriods
    \/ SummaryPeriods
    \/ SearchPeriods
    \/ ExportPeriods
    \/ ComparisonPeriodsResolved
    \/ Deliver

SpecPeriod == InitPeriod /\ [][NextPeriod]_vars

\* The selection of a request lies in the past: four-digit years, months of the
\* calendar, and no (year, month) after the current month.
SelectionInPast ==
    \A i \in 1..Len(req.years), j \in 1..Len(req.months) :
        /\ 1000 <= req.years[i] /\ req.years[i] <= 9999
        /\ 1 <= req.months[j] /\ req.months[j] <= 12
        /\ \/ req.years[i] < today.y
           \/ req.years[i] = today.y /\ req.months[j] <= today.m

\* C3: when a request gives both years and months, all in the past, the period
\* list resolved by the dashboard, the summary and the search service holds exactly
\* the pairs of a given year with a given month, each once, ascending by (year, month);
\* for years [2024, 2025] and months [1, 2] it is (2024,1), (2024,2), (2025,1), (2025,2),
\* not the pairing by position (2024,1), (2025,2).
C3_PeriodsAreTheSortedProduct ==
    (/\ resp.svc = "periods"
     /\ resp.by \in {"dashboard", "summary", "search", "export"}
     /\ req.years # <<>>
     /\ req.months # <<>>
     /\ SelectionInPast) =>
        /\ resp.kind = "ok"
        /\ Range(resp.periods) = {YM(y, m) : y \in Range(req.years), m \in Range(req.months)}
        /\ \A i, j \in 1..Len(resp.periods) :
              i < j => \/ resp.periods[i].y < resp.periods[j].y
                       \/ /\ resp.periods[i].y = resp.periods[j].y
                          /\ resp.periods[i].m < resp.periods[j].m
        /\ (req.years = <<2024, 2025>> /\ req.months = <<1, 2>>) =>
              resp.periods = <<YM(2024, 1), YM(2024, 2), YM(2025, 1), YM(2025, 2)>>

C3_Witness ==
    /\ resp.svc = "periods"
    /\ resp.by = "summary"
    /\ req.years = <<2024, 2025>>
    /\ req.months = <<1, 2>>
    /\ resp.periods = <<YM(2024, 1), YM(2024, 2), YM(2025, 1), YM(2025, 2)>>

\* C4: for a request without years and months, when the current month has no stored
\* row and an earlier month has, the resolvers of the dashboard, the comparison and
\* the search export answer with exactly the latest stored month and with an advisory
\* message, not with an empty list and not with an error.
C4_FallbackIsLatestMonthWithMessage ==
    (/\ resp.svc = "periods"
     /\ resp.by \in {"dashboard", "comparison", "export"}
     /\ req.years = <<>>
     /\ req.months = <<>>
     /\ rows # <<>>
     /\ \A i \in 1..Len(rows) : MonthIndex(rows[i].ym) < MonthIndex(today)) =>
        /\ resp.kind = "ok"
        /\ resp.periods = <<LatestOf(StoredMonths(rows))>>
        /\ resp.messages # <<>>

\* The request names years or months, all of them well-formed, and every period
\* it selects lies after the current month.
SelectionAllFuture ==
    /\ req.years # <<>> \/ req.months # <<>>
    /\ \A i \in 1..Len(req.years) : 1000 <= req.years[i] /\ req.years[i] <= 9999
    /\ \A j \in 1..Len(req.months) : 1 <= req.months[j] /\ req.months[j] <= 12
    /\ \A y \in (IF req.years = <<>> THEN {today.y} ELSE Range(req.years)),
          m \in (IF req.months = <<>> THEN 1..12 ELSE Range(req.months)) :
            MonthIndex(YM(y, m)) > MonthIndex(today)

\* C12: a request whose explicit years and months select only future periods ends
\* with an error in the search, the dashboard and the comparison resolver; it is
\* answered neither with the latest stored period nor with the requested periods.
C12_AllFutureSelectionIsAnError ==
    (/\ resp.svc = "periods"
     /\ resp.by \in {"search", "dashboard", "comparison"}
     /\ SelectionAllFuture) =>
        resp.kind = "error"

(***************************************************************************)
(* The normalisation model: raw filter values of every shape go through    *)
(* the services' normalisers, once and again, and through the summary      *)
(* request's own filter parsing.                                           *)
(***************************************************************************)
MaxWrap == 3

\* s inside n pairs of the quote character q
RECURSIVE Quoted(_, _, _)
Quoted(s, q, n) == IF n = 0 THEN s ELSE <<q>> \o Quoted(s, q, n - 1) \o <<q>>

RawStrings ==
    {<<>>, ALL, lower(ALL), <<" ">> \o ALL, C1, C1 \o <<",">> \o C2}
    \cup {Quoted(s, q, n) : s \in {C1, ALL}, q \in {SQ, DQ}, n \in 1..MaxWrap}

RawLists ==
    {<<>>, <<ALL>>, <<C1>>, <<C1, C2>>, <<<<>>>>}
    \cup {<<Quoted(s, SQ, n)>> : s \in {C1, ALL}, n \in 1..MaxWrap}

RawValues == {PyNone} \cup {PyStr(s) : s \in RawStrings} \cup {PyList(l) : l \in RawLists}

\* The inputs that stand for "no filter"
NoConstraintInputs == {PyNone, PyStr(ALL), PyList(<<ALL>>), PyList(<<>>), PyStr(<<>>)}

FilterFamilies == {"clients", "departments", "shifts", "emp_id", "client_partner"}

NormRows ==
    {Row(E1, C1, D1, ShiftA, 2, AggPeriod),
     Row(E2, C1, D1, ShiftA, 1, AggPeriod),
     Row(E2, C2, D2, ShiftB, 1, AggPeriod)}

\* the request for the stored period with every filter at its default
NormBasePayload ==
    SummaryPayload(PyStr(ALL), "", "", <<AggPeriod.y>>, <<AggPeriod.m>>)

\* the same request with one filter family given a raw value
NormSummaryPayloads ==
    {[NormBasePayload EXCEPT ![f] = v] : f \in FilterFamilies, v \in RawValues}

NormReq(value) == [svc |-> "normalize", value |-> value]

NormResp(by, out) == [svc |-> "normalize", by |-> by, first |-> out, out |-> out, passes |-> 1]

InitNorm ==
    /\ rows = <<>>
    /\ rates = AggRates
    /\ shiftKeys = AggShiftKeys
    /\ today = AggToday
    /\ cache = {}
    /\ req = NoReq
    /\ resp = NoResp
    /\ files = {}
    /\ workers = NoWorkers
    /\ uploaded_files = <<>>

StoreNormRow == StoreRow(NormRows)

NormSummaryRequest == SummaryRequest(NormSummaryPayloads)

\* dashboard_service: clients_list = _normalize_to_list(payload.get("clients"))
DashboardNormalize ==
    /\ resp = NoResp
    /\ \E v \in RawValues :
        /\ req' = NormReq(v)
        /\ resp' = NormResp("dashboard", _normalize_to_list(v))
    /\ UNCHANGED <<rows, rates, shiftKeys, today, cache, files, workers, uploaded_files>>

\* search_service: client_values = _normalize_to_list(clients)
SearchNormalize ==
    /\ resp = NoResp
    /\ \E v \in RawValues :
        /\ req' = NormReq(v)
        /\ resp' = NormResp("search", search_normalize_to_list(v))
    /\ UNCHANGED <<rows, rates, shiftKeys, today, cache, files, workers, uploaded_files>>

\* client_summary_download_service: _normalize_multi_str_or_list(payload.get(...))
DownloadNormalize ==
    /\ resp = NoResp
    /\ \E v \in RawValues :
        /\ req' = NormReq(v)
        /\ resp' = NormResp("download", _normalize_multi_str_or_list(v))
    /\ UNCHANGED <<rows, rates, shiftKeys, today, cache, files, workers, uploaded_files>>

\* the normalised value is handed to the same normaliser once more
Renormalize ==
    /\ resp.svc = "normalize"
    /\ resp.passes = 1
    /\ resp' = [resp EXCEPT !.passes = 2,
                            !.out = CASE resp.by = "dashboard" -> _normalize_to_list(@)
                                      [] resp.by = "search" -> search_normalize_to_list(@)
                                      [] OTHER -> _normalize_multi_str_or_list(@)]
    /\ UNCHANGED <<rows, rates, shiftKeys, today, cache, req, files, workers, uploaded_files>>

NextNorm ==
    \/ StoreNormRow
    \/ NormSummaryRequest
    \/ DashboardNormalize
    \/ SearchNormalize
    \/ DownloadNormalize
    \/ Renormalize
    \/ Deliver

SpecNorm == InitNorm /\ [][NextNorm]_vars

\* C8: each of None, "ALL", ["ALL"], [] and "" stands for no constraint in every
\* filter family: the dashboard's and the search service's normalisers turn it into
\* None, and a summary request that gives it for clients, departments, shifts,
\* employee ids or partners is answered exactly like the request without that filter,
\* never with an error and never with fewer rows.
C8_EmptyLikeFilterIsNoConstraint ==
    /\ (/\ resp.svc = "normalize"
        /\ resp.by \in {"dashboard", "search"}
        /\ req.value \in NoConstraintInputs) => resp.out = PyNone
    /\ (/\ resp.svc = "summary"
        /\ req.payload.years = NormBasePayload.years
        /\ \A f \in FilterFamilies : req.payload[f] \in NoConstraintInputs) =>
           resp = client_summary_service(NormBasePayload, rows, rates, shiftKeys, today,
                                         cache).resp

\* C9: normalising a normalised filter value changes nothing: for every raw value,
\* what the dashboard's _normalize_to_list and the download service's
\* _normalize_multi_str_or_list return for their own result is that result.
C9_NormalizeIsIdempotent ==
    (/\ resp.svc = "normalize"
     /\ resp.by \in {"dashboard", "download"}
     /\ resp.passes = 2) => resp.out = resp.first

(***************************************************************************)
(* client_summary_download_service: the Excel export of the summary and    *)
(* its file cache.  A written file is kept as the summary data its sheet   *)
(* was built from; the default export always goes to one path, so the      *)
(* file a cache entry points to holds what was written with the entry.     *)
(***************************************************************************)
\* is_default_latest_month_request(payload)
is_default_latest_month_request(payload) ==
    /\ payload.clients \in {PyNone, PyStr(ALL)}
    /\ payload.years = <<>>
    /\ payload.months = <<>>
    /\ ~Truthy(payload.emp_id)
    /\ ~Truthy(payload.client_partner)

\* latest_month_cache_key(payload): the filters of the payload
latest_month_cache_key(payload) ==
    [clients |-> payload.clients,
     departments |-> payload.departments,
     emp_id |-> payload.emp_id,
     client_partner |-> payload.client_partner,
     shifts |-> payload.shifts,
     headcounts |-> payload.headcounts]

\* _stable_cache_key: the filter-aware key of a default request, a hash of the
\* payload otherwise
_stable_cache_key(payload, default_req) ==
    IF default_req THEN [excel |-> "latest", parts |-> latest_month_cache_key(payload)]
    ELSE [excel |-> "hash", parts |-> payload]

\* _current_shift_signature(): the keys followed by their labels; a key without a
\* display string is its own label
_current_shift_signature(keysCfg) ==
    [i \in 1..Len(keysCfg) |-> upper(strip(keysCfg[i]))]
    \o [i \in 1..Len(keysCfg) |-> upper(strip(keysCfg[i]))]

\* _get_db_latest_ym(db): <<>> for an empty table
_get_db_latest_ym(rs) == IF rs = <<>> THEN <<>> ELSE <<LatestOf(StoredMonths(rs))>>

DownloadFile(periods, hit) ==
    [svc |-> "download", kind |-> "ok", error |-> "", periods |-> periods, from_cache |-> hit]

DownloadError(what) ==
    [svc |-> "download", kind |-> "error", error |-> what, periods |-> <<>>,
     from_cache |-> FALSE]

\* lines 426-443: the cached file is returned when it exists and, for a default
\* request, was written under the same shift signature and latest month
DownloadCacheHit(cached, default_req, latest_ym, shift_sig) ==
    /\ cached.t = "excel"
    /\ default_req => /\ cached.shift_sig = shift_sig
                      /\ cached.cached_month = latest_ym

\* lines 446-545: the summary is computed, the file written and its path cached
DownloadFresh(out, key, default_req, latest_ym, shift_sig) ==
    IF out.resp.kind = "error" THEN [resp |-> DownloadError(out.resp.error), cache |-> out.cache]
    ELSE [resp |-> DownloadFile(out.resp.periods, FALSE),
          cache |-> CacheSet(out.cache, key,
                             [t |-> "excel",
                              cached_month |-> IF default_req THEN latest_ym ELSE <<>>,
                              shift_sig |-> IF default_req THEN shift_sig ELSE <<>>,
                              file |-> out.resp.periods])]

\* client_summary_download_service(db, payload): [resp, cache]
client_summary_download_service(payload, rs, rateTable, keysCfg, todayYM, c) ==
    IF DownloadCacheHit(CacheGet(c, _stable_cache_key(payload,
                                                      is_default_latest_month_request(payload))),
                        is_default_latest_month_request(payload),
                        _get_db_latest_ym(rs), _current_shift_signature(keysCfg))
    THEN [resp |-> DownloadFile(CacheGet(c, _stable_cache_key(
                                                payload,
                                                is_default_latest_month_request(payload))).file,
                                TRUE),
          cache |-> c]
    ELSE DownloadFresh(client_summary_service(payload, rs, rateTable, keysCfg, todayYM, c),
                       _stable_cache_key(payload, is_default_latest_month_request(payload)),
                       is_default_latest_month_request(payload),
                       _get_db_latest_ym(rs), _current_shift_signature(keysCfg))

\* POST /client-summary/download
DownloadRequest(payloads) ==
    /\ resp = NoResp
    /\ \E payload \in payloads :
        \E out \in {client_summary_download_service(payload, rows, rates, shiftKeys, today,
                                                    cache)} :
            /\ req' = [svc |-> "download", payload |-> payload]
            /\ resp' = out.resp
            /\ cache' = out.cache
    /\ UNCHANGED <<rows, rates, shiftKeys, today, files, workers, uploaded_files>>

(***************************************************************************)
(* The cache model: latest-style summary requests are interleaved with     *)
(* uploads of rows, changes of a rate and of the configured shift keys,    *)
(* and the expiry of cached responses.                                     *)
(***************************************************************************)
CacheRows ==
    {Row(E1, C1, D1, ShiftA, 2, AggPeriod),
     Row(E2, C1, D1, ShiftB, 1, AggPeriod),
     Row(E1, C2, D1, ShiftA, 1, AggToday)}

\* the rate table after the rate of the first shift was raised
RaisedRates ==
    {[shift_type |-> ShiftA, payroll_year |-> AggPeriod.y, amount |-> 600],
     [shift_type |-> ShiftB, payroll_year |-> AggPeriod.y, amount |-> 350]}

\* the configuration after a shift key was taken out
FewerShiftKeys == <<ShiftA, ShiftC>>

\* requests without years and months: the latest month with data is asked for
LatestPayloads == {SummaryPayload(PyStr(ALL), "", "", <<>>, <<>>)}

InitCache ==
    /\ rows = <<>>
    /\ rates = AggRates
    /\ shiftKeys = AggShiftKeys
    /\ today = AggToday
    /\ cache = {}
    /\ req = NoReq
    /\ resp = NoResp
    /\ files = {}
    /\ workers = NoWorkers
    /\ uploaded_files = <<>>

StoreCacheRow == StoreRow(CacheRows)

LatestSummaryRequest == SummaryRequest(LatestPayloads)

LatestDownloadRequest == DownloadRequest(LatestPayloads)

\* a row of shifts_amount is given another amount
ChangeRate ==
    /\ resp = NoResp
    /\ rates' = IF rates = AggRates THEN RaisedRates ELSE AggRates
    /\ UNCHANGED <<rows, shiftKeys, today, cache, req, resp, files, workers, uploaded_files>>

\* get_all_shift_keys() returns another configuration
ChangeShiftKeys ==
    /\ resp = NoResp
    /\ shiftKeys' = IF shiftKeys = AggShiftKeys THEN FewerShiftKeys ELSE AggShiftKeys
    /\ UNCHANGED <<rows, rates, today, cache, req, resp, files, workers, uploaded_files>>

\* expire=CACHE_TTL: a cached response is dropped once its time is over
CacheExpire ==
    /\ resp = NoResp
    /\ \E en \in cache : cache' = cache \ {en}
    /\ UNCHANGED <<rows, rates, shiftKeys, today, req, resp, files, workers, uploaded_files>>

NextCache ==
    \/ StoreCacheRow
    \/ LatestSummaryRequest
    \/ LatestDownloadRequest
    \/ ChangeRate
    \/ ChangeShiftKeys
    \/ CacheExpire
    \/ Deliver

SpecCache == InitCache /\ [][NextCache]_vars

\* C10: whatever uploads, rate changes, configuration changes and earlier requests
\* came before it, a summary request is answered with exactly what the service
\* computes from the stored rows, the rates and the shift keys when nothing is cached.
C10_CacheIsTransparent ==
    resp.svc = "summary" =>
        [resp EXCEPT !.from_cache = FALSE]
            = client_summary_service(req.payload, rows, rates, shiftKeys, today, {}).resp

\* C11: the answer to a default request, cached or not, is one computed for the
\* latest stored period and for the shift keys configured now.  Where every stored
\* row has a shift of the answer's own key set, the answer was computed when its
\* month was the latest stored one; so its keys are the configured keys and its
\* month is the latest stored month, for the summary and for the summary download.
C11_CachedResultMatchesPeriodAndShiftKeys ==
    (/\ resp.svc \in {"summary", "download"}
     /\ resp.kind = "ok"
     /\ is_default_latest_month_request(req.payload)
     /\ resp.periods # <<>>
     /\ \A i \in 1..Len(rows) :
           upper(clean_str(rows[i].shift_type)) \in DOMAIN resp.periods[1].month_total.shifts) =>
        /\ DOMAIN resp.periods[1].month_total.shifts = Range(get_shift_keys(shiftKeys))
        /\ resp.periods[1].month = LatestOf(StoredMonths(rows))

(***************************************************************************)
(* search_service: headcount ranges and export_filtered_excel.             *)
(***************************************************************************)
\* lines 174-179: a range "a-b"; a > b is swapped, a bound of zero raises HTTP 400
search_range(a, b) ==
    IF a <= 0 \/ b <= 0 THEN [ok |-> FALSE, a |-> 0, b |-> 0]
    ELSE IF a > b THEN [ok |-> TRUE, a |-> b, b |-> a]
    ELSE [ok |-> TRUE, a |-> a, b |-> b]

\* lines 172-191: one part, matched against _HEADCOUNT_RANGE_RE, then _SINGLE_NUM_RE
search_parse_part(part) ==
    IF /\ contains(part, "-")
       /\ Len(split(part, "-")) = 2
       /\ isdigit(strip(split(part, "-")[1]))
       /\ isdigit(strip(split(part, "-")[2]))
    THEN search_range(int(strip(split(part, "-")[1])), int(strip(split(part, "-")[2])))
    ELSE IF isdigit(part) /\ int(part) > 0 THEN [ok |-> TRUE, a |-> int(part), b |-> int(part)]
    ELSE [ok |-> FALSE, a |-> 0, b |-> 0]

\* lines 169-171: the parts of every token, split at commas and stripped
search_headcount_parts(vals) ==
    Flatten([i \in 1..Len(vals) |->
                [j \in 1..Len(split(vals[i], ",")) |-> strip(split(vals[i], ",")[j])]])

\* lines 172-192 over the parts
search_ranges_of(parts) ==
    IF \E i \in 1..Len(parts) : ~search_parse_part(parts[i]).ok
    THEN [t |-> "error", r |-> <<>>]
    ELSE [t |-> "ranges",
          r |-> [i \in 1..Len(parts) |-> [start |-> search_parse_part(parts[i]).a,
                                          end |-> search_parse_part(parts[i]).b]]]

\* _parse_headcount_ranges(headcounts): [t |-> "none"], [t |-> "ranges", r |-> <<[start, end]>>]
\* or [t |-> "error"] for HTTP 400
_parse_headcount_ranges(headcounts) ==
    IF search_normalize_to_list(headcounts).t = "none" THEN [t |-> "none", r |-> <<>>]
    ELSE search_ranges_of(search_headcount_parts(search_normalize_to_list(headcounts).l))

\* the positions 1..n that lie in one of the ranges
search_allowed_indices(n, ranges) ==
    SelectSeq([i \in 1..n |-> i],
              LAMBDA i : \E x \in Range(ranges) : x.start <= i /\ i <= x.end)

\* the elements of s at the positions pos
PickAt(s, pos) == [k \in 1..Len(pos) |-> s[pos[k]]]

\* _apply_headcount_filter for group_key None: the employees at the positions in a range
search_apply_headcount_filter(unique_employees, ranges) ==
    IF ranges = <<>> THEN unique_employees
    ELSE PickAt(unique_employees, search_allowed_indices(Len(unique_employees), ranges))

\* the arguments of an export; clients and departments are "ALL", emp_id and
\* client_partner None; sort_by and sort_order are given trimmed and in lower case
ExportPayload(shifts, headcounts, sort_by, sort_order, years, months) ==
    [shifts |-> shifts, headcounts |-> headcounts, sort_by |-> sort_by,
     sort_order |-> sort_order, years |-> years, months |-> months]

\* row_queries: the queries against the allowance rows issued before the response
ExportResp(kind, status, row_queries, periods, emp_ids) ==
    [svc |-> "export", kind |-> kind, status |-> status, row_queries |-> row_queries,
     periods |-> periods, emp_ids |-> emp_ids]

\* lines 347, 356: shift_values_up
export_shift_values_up(shift_values) ==
    IF shift_values.t = "none" THEN <<>>
    ELSE [i \in 1..Len(shift_values.l) |-> strip(upper(shift_values.l[i]))]

\* lines 349-350: the shift values that are no configured key
export_invalid_shifts(shift_values_up, keysCfg) ==
    SelectSeq(shift_values_up,
              LAMBDA s : s \notin {strip(upper(keysCfg[i])) : i \in 1..Len(keysCfg)})

\* _apply_filters_no_period: the rows with a mapping of a selected shift and days > 0
export_base(rs, shift_values_up) ==
    SelectSeq(rs, LAMBDA r : shift_values_up # <<>> =>
                                 /\ strip(upper(r.shift_type)) \in Range(shift_values_up)
                                 /\ r.days > 0)

\* lines 425-441: _any_row_for is called for the current month and then for the
\* months before it until one has a row; an explicit selection issues no query
export_period_queries(years, months, todayYM, base) ==
    IF years # <<>> \/ months # <<>> THEN 0
    ELSE IF todayYM \in StoredMonths(base) THEN 1
    ELSE IF export_found(todayYM, base) = <<>> THEN 13
    ELSE 1 + (MonthIndex(todayYM) - MonthIndex(export_found(todayYM, base)[1]))

\* order_by(emp_id) and order_by(year, month), each stable
export_order_by_emp(sel) == SortPy(sel, [i \in 1..Len(sel) |-> StrKey(sel[i].emp_id)], FALSE)

export_order_by_month(sel) == SortPy(sel, [i \in 1..Len(sel) |-> MonthIndex(sel[i].ym)], FALSE)

\* _build_periods_query().all(): ordered by year, month, emp_id
export_all_rows(base, periods) ==
    export_order_by_month(export_order_by_emp(SelectSeq(base, LAMBDA r : r.ym \in Range(periods))))

\* _aggregate_unique_employees: one entry per emp_id, in the order of first appearance
export_unique_employees(all_rows) == Dedupe([i \in 1..Len(all_rows) |-> all_rows[i].emp_id])

export_valid_sort == {"client", "client_partner", "departments", "total_allowance", "headcount"}

\* lines 523-544: no employee left, then sort_by and sort_order are validated
export_sorted(payload, periods, q, filtered_employees) ==
    IF filtered_employees = <<>>
    THEN ExportResp("error", "404 No employees match the requested headcount range(s)", q,
                    <<>>, {})
    ELSE IF (IF payload.sort_by = "" THEN "total_allowance" ELSE payload.sort_by)
                \notin export_valid_sort
    THEN ExportResp("error", "400 sort_by", q, <<>>, {})
    ELSE IF (IF payload.sort_order = "" THEN "default" ELSE payload.sort_order)
                \notin {"default", "asc", "desc"}
    THEN ExportResp("error", "400 sort_order", q, <<>>, {})
    ELSE ExportResp("ok", "200", q, periods, Range(filtered_employees))

\* lines 510-521: the headcount ranges are parsed once the rows are aggregated
export_with_ranges(payload, periods, q, unique_employees, headcount_ranges) ==
    IF headcount_ranges.t = "error" THEN ExportResp("error", "400 headcount", q, <<>>, {})
    ELSE export_sorted(payload, periods, q,
                       search_apply_headcount_filter(unique_employees, headcount_ranges.r))

\* lines 501-508: the rows of the periods are fetched
export_after_query(payload, periods, q, all_rows) ==
    IF all_rows = <<>>
    THEN ExportResp("error", "404 No data found for selected period/filters", q, <<>>, {})
    ELSE export_with_ranges(payload, periods, q, export_unique_employees(all_rows),
                            _parse_headcount_ranges(payload.headcounts))

\* lines 423-501: pr is the outcome of the period resolution, q the queries it issued
export_with_periods(payload, base, pr, q) ==
    IF pr.kind = "error" THEN ExportResp("error", pr.status, q, <<>>, {})
    ELSE export_after_query(payload, pr.periods, q + 1, export_all_rows(base, pr.periods))

\* lines 346-423: the shift values are validated and the filters built
export_validated(payload, rs, todayYM, shift_values_up) ==
    export_with_periods(payload, export_base(rs, shift_values_up),
                        export_periods(payload.years, payload.months, todayYM, rs,
                                       export_base(rs, shift_values_up)),
                        export_period_queries(payload.years, payload.months, todayYM,
                                              export_base(rs, shift_values_up)))

\* export_filtered_excel(db, ...), up to the employees the file lists
export_filtered_excel(payload, rs, keysCfg, todayYM) ==
    IF export_invalid_shifts(export_shift_values_up(search_normalize_to_list(payload.shifts)),
                             keysCfg) # <<>>
    THEN ExportResp("error", "400 Invalid shift type(s)", 0, <<>>, {})
    ELSE export_validated(payload, rs, todayYM,
                          export_shift_values_up(search_normalize_to_list(payload.shifts)))

(***************************************************************************)
(* The row queries the summary and the comparison service issue before     *)
(* they answer.                                                            *)
(***************************************************************************)
\* client_summary_service: resolve_target_months queries the distinct months when
\* no period is given (line 247); query.all() follows unless the months are empty
\* or the response cache answers (lines 324-378)
summary_row_queries(payload, rs, keysCfg, todayYM, c, flt) ==
    IF Raised(summary_allowed_shifts(payload.shifts, get_shift_keys(keysCfg))) THEN 0
    ELSE IF parse_headcount_ranges(payload.headcounts).t = "error" THEN 0
    ELSE (IF payload.years = <<>> /\ payload.months = <<>> THEN 1 ELSE 0)
         + (IF resolve_target_months(rs, todayYM, payload.years, payload.months, flt) = <<>>
            THEN 0
            ELSE IF /\ payload.years = <<>> /\ payload.months = <<>>
                    /\ CacheHit(c, response_cache_key(payload))
            THEN 0
            ELSE 1)

\* get_client_total_allowances: base_query...first() once or twice when no period
\* is given (lines 436-449), then rows = q.all() (line 485)
comparison_row_queries(filters, base, todayYM) ==
    (IF filters.years = <<>> /\ filters.months = <<>>
     THEN IF todayYM \in StoredMonths(base) THEN 1 ELSE 2
     ELSE 0) + 1

\* a handler's outcome with the number of row queries it issued
Traced(by, kind, error, row_queries) ==
    [svc |-> "trace", by |-> by, kind |-> kind, error |-> error, row_queries |-> row_queries]

(***************************************************************************)
(* The validation model: requests with well-formed and with ill-formed     *)
(* shifts, head counts, sort keys, top values and periods go to the        *)
(* summary, the comparison and the export, and each outcome is recorded    *)
(* with the number of row queries issued before it.                        *)
(***************************************************************************)
\* schemas/dashboardschema.py: the Literal type of sort_by in DashboardFilterRequest
\* and ClientTotalAllowanceFilter; "" stands for a request without the field.  A
\* value outside the type ends the request with HTTP 422 before the handler runs.
SortBy == {"client", "client_partner", "departments", "headcount", "total_allowance"}

schema_accepts_sort_by(sort_by) == sort_by = "" \/ sort_by \in SortBy

FailFastRows ==
    {Row(e, C1, D1, ShiftA, 1, ym) : e \in {E1, E2}, ym \in {AggPeriod, AggToday}}

FailFastPeriods ==
    {<<<<>>, <<>>>>, <<<<AggPeriod.y>>, <<AggPeriod.m>>>>, <<<<AggToday.y + 1>>, <<>>>>,
     <<<<AggPeriod.y>>, <<13>>>>}

FailFastHeadcounts ==
    {PyStr(ALL), PyStr(<<"1", "-", "5">>), PyStr(<<"5", "-", "2">>), PyStr(<<"0", "-", "5">>),
     PyStr(<<"0">>), PyStr(<<"x">>)}

FailFastShifts == {PyStr(ALL), PyStr(ShiftA), PyStr(lower(ShiftA)), PyStr(<<"Z">>)}

FailFastSummaryPayloads ==
    {[SummaryPayload(h, sb, "", <<AggPeriod.y>>, <<AggPeriod.m>>) EXCEPT !.shifts = sh] :
        h \in FailFastHeadcounts, sb \in {"", "bogus"}, sh \in FailFastShifts}
    \cup {SummaryPayload(h, "", "", <<>>, <<>>) : h \in {PyStr(ALL), PyStr(<<"x">>)}}

FailFastComparisonFilters ==
    {[ComparisonFilters(PyNone, p[1], p[2]) EXCEPT !.sort_by = sb, !.top = t] :
        p \in {<<<<>>, <<>>>>, <<<<AggPeriod.y>>, <<AggPeriod.m>>>>},
        sb \in {"", "headcount", "bogus"}, t \in {0, 1, -1}}
    \cup {ComparisonFilters(h, <<AggPeriod.y>>, <<AggPeriod.m>>) :
             h \in {PyStr(<<"1", "-", "5">>), PyStr(<<"5", "-", "2">>),
                    PyStr(<<"0", "-", "5">>)}}

FailFastExportPayloads ==
    {ExportPayload(sh, h, sb, "", p[1], p[2]) :
        sh \in FailFastShifts, h \in FailFastHeadcounts, sb \in {"", "bogus"},
        p \in FailFastPeriods}

FailFastDashboardPayloads ==
    {[DashboardPayload(PyNone, <<AggPeriod.y>>, <<AggPeriod.m>>) EXCEPT !.sort_by = sb] :
        sb \in {"", "headcount", "bogus"}}
    \cup {[DashboardPayload(PyNone, <<AggPeriod.y>>, <<AggPeriod.m>>) EXCEPT
               !.shifts = PyList(<<sh>>)] : sh \in {ShiftA, lower(ShiftA), <<"Z">>}}

\* the shift keys configured when the server starts: the usual three, or none
FailFastShiftKeys == {AggShiftKeys, <<>>}

InitFailFast ==
    /\ rows = <<>>
    /\ rates = AggRates
    /\ shiftKeys \in FailFastShiftKeys
    /\ today = AggToday
    /\ cache = {}
    /\ req = NoReq
    /\ resp = NoResp
    /\ files = {}
    /\ workers = NoWorkers
    /\ uploaded_files = <<>>

StoreFailFastRow == StoreRow(FailFastRows)

\* POST /client-summary
SummaryTraced ==
    /\ resp = NoResp
    /\ \E payload \in FailFastSummaryPayloads :
        \E out \in {client_summary_service(payload, rows, rates, shiftKeys, today, cache)} :
            /\ req' = [svc |-> "summary", payload |-> payload]
            /\ resp' = Traced("summary", out.resp.kind, out.resp.error,
                              summary_row_queries(payload, rows, shiftKeys, today, cache,
                                  SummaryFilters(payload,
                                      summary_allowed_shifts(payload.shifts,
                                                             get_shift_keys(shiftKeys)).e)))
            /\ cache' = out.cache
    /\ UNCHANGED <<rows, rates, shiftKeys, today, files, workers, uploaded_files>>

\* POST /client-total-allowances-piechart, filters: ClientTotalAllowanceFilter
ComparisonTraced ==
    /\ resp = NoResp
    /\ \E filters \in FailFastComparisonFilters :
        \E out \in {get_client_total_allowances(filters, rows, rates, today)} :
            /\ req' = [svc |-> "comparison", payload |-> filters]
            /\ resp' = IF ~schema_accepts_sort_by(filters.sort_by)
                       THEN Traced("comparison", "error", "422 sort_by", 0)
                       ELSE Traced("comparison", out.kind, out.error,
                                   comparison_row_queries(filters,
                                       SelectSeq(rows,
                                                 LAMBDA r : ComparisonBaseMatches(r, filters)),
                                       today))
    /\ UNCHANGED <<rows, rates, shiftKeys, today, cache, files, workers, uploaded_files>>

\* POST /dashboard/KPIS-summary, payload: DashboardFilterRequest
KpisSummaryRequest ==
    /\ resp = NoResp
    /\ \E payload \in FailFastDashboardPayloads :
        /\ req' = [svc |-> "dashboard", payload |-> payload]
        /\ resp' = IF ~schema_accepts_sort_by(payload.sort_by) THEN DashError("422 sort_by")
                   ELSE get_client_dashboard_summary(payload, rows, rates, shiftKeys, today)
    /\ UNCHANGED <<rows, rates, shiftKeys, today, cache, files, workers, uploaded_files>>

\* POST /search, payload: dict
ExportTraced ==
    /\ resp = NoResp
    /\ \E payload \in FailFastExportPayloads :
        \E out \in {export_filtered_excel(payload, rows, shiftKeys, today)} :
            /\ req' = [svc |-> "export", payload |-> payload]
            /\ resp' = Traced("export", out.kind, out.status, out.row_queries)
    /\ UNCHANGED <<rows, rates, shiftKeys, today, cache, files, workers, uploaded_files>>

NextFailFast ==
    \/ StoreFailFastRow
    \/ SummaryTraced
    \/ ComparisonTraced
    \/ KpisSummaryRequest
    \/ ExportTraced
    \/ Deliver

SpecFailFast == InitFailFast /\ [][NextFailFast]_vars

\* the HTTP 400 outcomes of request validation
ValidationErrors ==
    {"400 Invalid shift(s)", "400 headcount", "400 sort_by", "400 sort_order", "400 top",
     "400 Invalid shift type(s)", "400 year", "400 month", "422 sort_by",
     "400 All requested periods are in the future"}

\* C13: a request of the summary, the comparison or the export that ends with a
\* validation error (HTTP 400 or 422 for a shift key, a head count range, sort_by,
\* top, a year or a month) has issued no row query before the error is raised.
C13_ValidationFailsBeforeAnyRowQuery ==
    (/\ resp.svc = "trace"
     /\ resp.kind = "error"
     /\ resp.error \in ValidationErrors) =>
        resp.row_queries = 0

\* C14: a request of the summary, the dashboard summary or the comparison whose
\* sort_by is none of client, client_partner, departments, headcount and
\* total_allowance ends with an error; it is not answered as if no sort key or
\* another one had been given.
C14_UnknownSortByIsRejected ==
    (/\ resp.svc \in {"trace", "dashboard"}
     /\ req.svc \in {"summary", "dashboard", "comparison"}
     /\ ~schema_accepts_sort_by(req.payload.sort_by)) =>
        resp.kind = "error"

\* head count ranges "N-M" with N > M or with a bound of zero
BadHeadcountRanges == {<<"5", "-", "2">>, <<"0", "-", "5">>}

\* C15: a request of the summary, the comparison or the search export whose head
\* count filter is a range "N-M" with N > M or with a zero bound ends with an error;
\* the range is not swapped, dropped or applied as given.
C15_BadHeadcountRangeIsRejected ==
    (/\ resp.svc = "trace"
     /\ req.payload.headcounts.t = "str"
     /\ req.payload.headcounts.s \in BadHeadcountRanges) =>
        resp.kind = "error"

\* the HTTP 400 outcomes of shift validation
ShiftErrors == {"400 Invalid shift(s)", "400 Invalid shift type(s)", "400 Invalid shift type"}

\* the one shift key a request asks for, as a string or as a list of one string
RequestedShift(payload) ==
    IF payload.shifts.t = "list" THEN payload.shifts.l[1] ELSE payload.shifts.s

\* C16: a request of the summary, the dashboard summary or the search export that
\* asks for one shift key is answered with a shift error exactly when shift keys are
\* configured and the key, compared without regard to case, is none of them; with
\* no shift key configured the key is not validated and raises no shift error.
C16_ShiftFilterIsValidatedAgainstConfiguredKeys ==
    (/\ resp.svc \in {"trace", "dashboard"}
     /\ req.svc \in {"summary", "dashboard", "export"}
     /\ schema_accepts_sort_by(req.payload.sort_by)
     /\ Truthy(req.payload.shifts)
     /\ req.payload.shifts # PyStr(ALL)) =>
        ((resp.kind = "error" /\ resp.error \in ShiftErrors)
            <=> /\ shiftKeys # <<>>
                /\ upper(strip(RequestedShift(req.payload)))
                       \notin {upper(strip(shiftKeys[i])) : i \in 1..Len(shiftKeys)})

\* the months a summary request selects: the given years and months, the months of
\* the current year for months alone, or every month when none is given
SummarySelects(payload, ym) ==
    /\ payload.years # <<>> => ym.y \in Range(payload.years)
    /\ payload.months # <<>> => ym.m \in Range(payload.months)
    /\ (payload.years = <<>> /\ payload.months # <<>>) => ym.y = today.y

\* C17: a summary request that passes validation and selects no month with a stored
\* row ends with the no-data outcome (empty periods and a message), neither with
\* an error nor with a bare empty success.
C17_NoMatchingRowsIsAnExplicitNoData ==
    (/\ resp.svc = "trace"
     /\ resp.by = "summary"
     /\ resp.error \notin ValidationErrors
     /\ \A i \in 1..Len(rows) : ~SummarySelects(req.payload, rows[i].ym)) =>
        resp.kind = "nodata"

\* C18: for a request without years and months the periods resolved by the
\* dashboard and by the summary are not after the current month, whatever months
\* have stored rows.
C18_ImplicitPeriodsAreNotInTheFuture ==
    (/\ resp.svc = "periods"
     /\ resp.by \in {"dashboard", "summary"}
     /\ req.years = <<>>
     /\ req.months = <<>>) =>
        \A i \in 1..Len(resp.periods) : MonthIndex(resp.periods[i]) <= MonthIndex(today)

(***************************************************************************)
(* upload_service.process_excel_upload and the table of allowance records. *)
(* In the upload model rows is the table shift_allowances: one record per  *)
(* inserted Excel row, with the columns of the uniqueness constraint and   *)
(* one column of values.                                                   *)
(***************************************************************************)
UploadRecord(emp, client, dm, pm, days) ==
    [emp_id |-> emp, client |-> client, duration_month |-> dm, payroll_month |-> pm,
     shift_a_days |-> days]

\* models.py, UniqueConstraint uix_payroll_employee
uix_payroll_employee(r) == <<r.duration_month, r.payroll_month, r.emp_id, r.client>>

\* db.bulk_save_objects(shift_records); db.commit(): every record is inserted, and
\* the insert raises IntegrityError when two records of the table would share the
\* columns of the constraint
bulk_save_objects(table, shift_records) ==
    IF \A i, j \in 1..Len(table \o shift_records) :
          i # j => uix_payroll_employee((table \o shift_records)[i])
                       # uix_payroll_employee((table \o shift_records)[j])
    THEN [ok |-> TRUE, table |-> table \o shift_records]
    ELSE [ok |-> FALSE, table |-> table]

UploadResp(status, records) == [svc |-> "upload", status |-> status, records |-> records]

\* process_excel_upload for a file whose rows all pass validate_excel_data: the
\* records are inserted in one transaction; any exception rolls it back, marks the
\* file failed and answers HTTP 500
process_excel_upload(records, table) ==
    IF bulk_save_objects(table, records).ok
    THEN [resp |-> UploadResp("processed", Len(records)),
          rows |-> bulk_save_objects(table, records).table]
    ELSE [resp |-> UploadResp("failed", 0), rows |-> table]

(***************************************************************************)
(* The upload model: Excel files of one or two rows are uploaded, for two  *)
(* employees and two payroll months, with one or three shift days.         *)
(***************************************************************************)
MaxBatch == 2

UploadRecords ==
    {UploadRecord(e, C1, YM(2025, 1), pm, d) :
        e \in {E1, E2}, pm \in {YM(2025, 2), YM(2025, 3)}, d \in {1, 3}}

UploadFiles == UNION {[1..n -> UploadRecords] : n \in 1..MaxBatch}

InitUpload ==
    /\ rows = <<>>
    /\ rates = AggRates
    /\ shiftKeys = AggShiftKeys
    /\ today = AggToday
    /\ cache = {}
    /\ req = NoReq
    /\ resp = NoResp
    /\ files = {}
    /\ workers = NoWorkers
    /\ uploaded_files = <<>>

\* POST /upload/
Upload ==
    /\ resp = NoResp
    /\ \E records \in UploadFiles :
        \E out \in {process_excel_upload(records, rows)} :
            /\ req' = [svc |-> "upload", records |-> records]
            /\ resp' = out.resp
            /\ rows' = out.rows
    /\ UNCHANGED <<rates, shiftKeys, today, cache, files, workers, uploaded_files>>

NextUpload ==
    \/ Upload
    \/ Deliver

SpecUpload == InitUpload /\ [][NextUpload]_vars

\* C19: once an upload is answered, every key (duration_month, payroll_month,
\* emp_id, client) of the uploaded file has exactly one stored record, and that
\* record holds the values the file gives last for the key.
C19_UploadOverwritesTheStoredRecord ==
    resp.svc = "upload" =>
        \A i \in 1..Len(req.records) :
            (\A j \in (i + 1)..Len(req.records) :
                 uix_payroll_employee(req.records[j]) # uix_payroll_employee(req.records[i])) =>
                /\ Cardinality({k \in 1..Len(rows) :
                                   uix_payroll_employee(rows[k])
                                       = uix_payroll_employee(req.records[i])}) = 1
                /\ req.records[i] \in Range(rows)

(***************************************************************************)
(* client_comparision_service.get_client_dashboard (POST /dashboard-Table).*)
(* filters is [clients, years, months, headcounts, shifts, top (0 for      *)
(* "ALL", negative for a value that is not a positive integer)]; the       *)
(* filters of this model carry no client_starts_with.  As in               *)
(* get_client_total_allowances a stored row is one shift mapping with its  *)
(* allowance row.                                                          *)
(***************************************************************************)
\* getattr(row, "emp_name", "") or "": the rows of most models carry no emp_name
row_emp_name(row) == IF "emp_name" \in DOMAIN row THEN row.emp_name ELSE <<>>

\* _extract_employee_id(row) as a set: the stripped id, else "name|dept|client",
\* else nothing
_extract_employee_id(row) ==
    IF row.emp_id # <<>> THEN {strip(row.emp_id)}
    ELSE IF \/ strip(row_emp_name(row)) # <<>>
            \/ strip(row.department) # <<>>
            \/ strip(row.client) # <<>>
    THEN {strip(row_emp_name(row)) \o <<"|">> \o strip(row.department)
              \o <<"|">> \o strip(row.client)}
    ELSE {}

\* lines 904-937: one item of filters.headcounts is malformed
client_dashboard_bad_headcount(item) ==
    LET s == strip(item)
        parts == split(s, "-")
    IN  IF contains(s, "+") THEN TRUE
        ELSE IF contains(s, "-")
        THEN \/ Len(parts) # 2
             \/ ~isdigit(parts[1])
             \/ ~isdigit(parts[2])
             \/ int(parts[1]) > int(parts[2])
        ELSE ~isdigit(s)

\* lines 878-946: the first validation that fails, or ""
client_dashboard_invalid(filters, valid_shifts, todayYM) ==
    LET shifts_to_check == IF filters.shifts.t = "list" THEN filters.shifts.l
                           ELSE <<filters.shifts.s>>
        values == IF filters.headcounts.t = "list" THEN filters.headcounts.l
                  ELSE <<filters.headcounts.s>>
    IN  IF /\ filters.years # <<>> /\ filters.years # <<0>>
           /\ \E i \in 1..Len(filters.years) :
                  filters.years[i] < 2000 \/ filters.years[i] > todayYM.y + 5
        THEN "400 Invalid year"
        ELSE IF /\ filters.months # <<>> /\ filters.months # <<0>>
                /\ \E i \in 1..Len(filters.months) :
                       filters.months[i] < 1 \/ filters.months[i] > 12
        THEN "400 Invalid month"
        ELSE IF /\ filters.shifts # PyStr(ALL)
                /\ valid_shifts # {}
                /\ \E i \in 1..Len(shifts_to_check) :
                       strip(upper(shifts_to_check[i])) \notin valid_shifts
        THEN "400 Invalid shift type"
        ELSE IF /\ filters.headcounts.t # "none"
                /\ filters.headcounts # PyStr(ALL)
                /\ \E i \in 1..Len(values) : client_dashboard_bad_headcount(values[i])
        THEN "400 Invalid headcount"
        ELSE IF filters.top < 0 THEN "400 top"
        ELSE ""

\* lines 983-989: None for "ALL", else the upper-cased keys asked for
client_dashboard_selected_shifts(shifts) ==
    IF shifts = PyStr(ALL) THEN PyNone
    ELSE IF shifts.t = "list" THEN PySet({upper(shifts.l[i]) : i \in 1..Len(shifts.l)})
    ELSE PySet({upper(shifts.s)})

ClientDashNew(client) == [client |-> client, emps |-> {}, depts |-> {}, total |-> 0]

\* lines 1009-1018: what one mapping adds to allowances_by_client
client_dashboard_amount(row, rateTable, selected_shifts, valid_shifts) ==
    IF Truthy(selected_shifts) /\ upper(row.shift_type) \notin selected_shifts.e THEN 0
    ELSE IF valid_shifts # {} /\ upper(row.shift_type) \notin valid_shifts THEN 0
    ELSE row.days * ComparisonRate(rateTable, upper(row.shift_type))

\* lines 994-1018: one iteration of "for row in rows": the employee and the
\* department are recorded for the client, then the mappings are walked
ClientDashFoldRow(acc, row, rateTable, selected_shifts, valid_shifts) ==
    Upsert(acc, "client", OrElse(row.client, Unknown),
           [Lookup(acc, "client", OrElse(row.client, Unknown),
                   ClientDashNew(OrElse(row.client, Unknown)))
               EXCEPT !.emps = @ \cup _extract_employee_id(row),
                      !.depts = @ \cup (IF row.department # <<>> THEN {row.department}
                                        ELSE {}),
                      !.total = @ + client_dashboard_amount(row, rateTable, selected_shifts,
                                                            valid_shifts)])

RECURSIVE ClientDashFold(_, _, _, _, _)
ClientDashFold(acc, rs, rateTable, selected_shifts, valid_shifts) ==
    IF rs = <<>> THEN acc
    ELSE ClientDashFold(ClientDashFoldRow(acc, Head(rs), rateTable, selected_shifts,
                                          valid_shifts),
                        Tail(rs), rateTable, selected_shifts, valid_shifts)

\* lines 1021-1037: the clients whose head count matches, by total allowance
\* descending, cut to top
ClientDashItems(folded, hc_rules, top) ==
    LET kept == SelectSeq(folded, LAMBDA c : _headcount_matches(Cardinality(c.emps), hc_rules))
        items == [i \in 1..Len(kept) |->
                     [client |-> kept[i].client,
                      departments |-> Cardinality(kept[i].depts),
                      headcount |-> Cardinality(kept[i].emps),
                      total_allowance |-> kept[i].total]]
    IN  CompTop(SortPy(items, [i \in 1..Len(items) |-> items[i].total_allowance], TRUE), top)

ClientDashError(what) ==
    [svc |-> "client_dashboard", kind |-> "error", error |-> what,
     selected_periods |-> <<>>, messages |-> <<>>, dashboard |-> <<>>]

\* lines 1039-1057
ClientDashResponse(resolved, todayYM, items) ==
    [svc |-> "client_dashboard", kind |-> "ok", error |-> "",
     selected_periods |-> resolved.pairs,
     messages |-> IF items = <<>> /\ resolved.messages = <<>>
                  THEN <<[kind |-> "no data", ym |-> todayYM]>>
                  ELSE resolved.messages,
     dashboard |-> items]

\* lines 966-978: the rows of the clients asked for, in the resolved periods
ClientDashRows(base, resolved) ==
    IF resolved.pairs = <<>> THEN base
    ELSE SelectSeq(base, LAMBDA r : r.ym \in Range(resolved.pairs))

\* q.filter on filters.clients, lines 952-964
ClientDashBase(filters, rs) ==
    SelectSeq(rs, LAMBDA r :
        filters.clients # PyStr(ALL) =>
            lower(strip(r.client)) \in
                {lower(strip(c)) : c \in Range(IF filters.clients.t = "list"
                                                THEN filters.clients.l
                                                ELSE <<filters.clients.s>>)})

\* get_client_dashboard(db, filters)
get_client_dashboard(filters, rs, rateTable, keysCfg, todayYM) ==
    IF client_dashboard_invalid(filters, Range(keysCfg), todayYM) # ""
    THEN ClientDashError(client_dashboard_invalid(filters, Range(keysCfg), todayYM))
    ELSE ClientDashResponse(
            _resolve_periods_and_messages(filters.years, filters.months, todayYM,
                                          ClientDashBase(filters, rs)),
            todayYM,
            ClientDashItems(
                ClientDashFold(<<>>,
                    ClientDashRows(ClientDashBase(filters, rs),
                        _resolve_periods_and_messages(filters.years, filters.months, todayYM,
                                                      ClientDashBase(filters, rs))),
                    rateTable, client_dashboard_selected_shifts(filters.shifts),
                    Range(keysCfg)),
                _parse_headcount_filter(filters.headcounts), filters.top))

(***************************************************************************)
(* The shift model: rows of the configured shifts A and B and of a shift Z *)
(* that is not configured are stored for one client, and the four          *)
(* aggregating services are asked for the stored period, for every shift   *)
(* or for shift A alone.                                                   *)
(***************************************************************************)
ShiftZ == <<"Z">>

ShiftRows ==
    {Row(e, C1, D1, sh, 2, AggPeriod) : e \in {E1, E2}, sh \in {ShiftA, ShiftB, ShiftZ}}

ShiftSummaryPayloads ==
    {[SummaryPayload(PyStr(ALL), "", "", <<AggPeriod.y>>, <<AggPeriod.m>>) EXCEPT
          !.shifts = sh] : sh \in {PyStr(ALL), PyList(<<ShiftA>>)}}

ShiftDashboardPayloads ==
    {[DashboardPayload(PyNone, <<AggPeriod.y>>, <<AggPeriod.m>>) EXCEPT !.shifts = sh] :
        sh \in {PyNone, PyList(<<ShiftA>>)}}

ShiftComparisonFilters ==
    {[ComparisonFilters(PyNone, <<AggPeriod.y>>, <<AggPeriod.m>>) EXCEPT !.shifts = sh] :
        sh \in {PyNone, PyList(<<ShiftA>>)}}

ClientDashboardFilter(shifts, years, months) ==
    [clients |-> PyStr(ALL), years |-> years, months |-> months,
     headcounts |-> PyStr(ALL), shifts |-> shifts, top |-> 0]

ShiftClientDashboardFilters ==
    {ClientDashboardFilter(sh, <<AggPeriod.y>>, <<AggPeriod.m>>) :
        sh \in {PyStr(ALL), PyList(<<ShiftA>>)}}

InitShift ==
    /\ rows = <<>>
    /\ rates = AggRates
    /\ shiftKeys = AggShiftKeys
    /\ today = AggToday
    /\ cache = {}
    /\ req = NoReq
    /\ resp = NoResp
    /\ files = {}
    /\ workers = NoWorkers
    /\ uploaded_files = <<>>

StoreShiftRow == StoreRow(ShiftRows)

ShiftSummaryRequest == SummaryRequest(ShiftSummaryPayloads)

ShiftDashboardRequest == DashboardRequest(ShiftDashboardPayloads)

ShiftComparisonRequest == ComparisonRequest(ShiftComparisonFilters)

\* POST /dashboard-Table
ClientDashboardRequest ==
    /\ resp = NoResp
    /\ \E filters \in ShiftClientDashboardFilters :
        /\ req' = [svc |-> "client_dashboard", payload |-> filters]
        /\ resp' = get_client_dashboard(filters, rows, rates, shiftKeys, today)
    /\ UNCHANGED <<rows, rates, shiftKeys, today, cache, files, workers, uploaded_files>>

NextShift ==
    \/ StoreShiftRow
    \/ ShiftSummaryRequest
    \/ ShiftDashboardRequest
    \/ ShiftComparisonRequest
    \/ ClientDashboardRequest
    \/ Deliver

SpecShift == InitShift /\ [][NextShift]_vars

\* the active shift-key set of a request: the keys asked for, else the configured keys
ActiveShiftKeys(payload) ==
    IF payload.shifts.t = "list"
    THEN {upper(clean_str(payload.shifts.l[i])) : i \in 1..Len(payload.shifts.l)}
    ELSE Range(get_shift_keys(shiftKeys))

\* the stored rows of a client whose shift type is in the active set
ActiveRowsOf(client, payload) ==
    SelectSeq(rows, LAMBDA r : /\ clean_str(r.client) = client
                               /\ upper(clean_str(r.shift_type)) \in ActiveShiftKeys(payload))

ActiveEmployees(client, payload) ==
    {clean_str(ActiveRowsOf(client, payload)[i].emp_id) :
        i \in 1..Len(ActiveRowsOf(client, payload))}

ActiveAllowance(client, payload) ==
    SumSeq([i \in 1..Len(ActiveRowsOf(client, payload)) |->
               ActiveRowsOf(client, payload)[i].days
                   * ComparisonRate(rates, upper(clean_str(
                                               ActiveRowsOf(client, payload)[i].shift_type)))])

\* the client nodes of a response, as [client, head, total]
ClientNodes(r) ==
    CASE r.svc = "summary" ->
            UNION {{[client |-> r.periods[p].clients[i].client_name,
                     head |-> r.periods[p].clients[i].client_head_count,
                     total |-> r.periods[p].clients[i].client_total] :
                        i \in 1..Len(r.periods[p].clients)} : p \in 1..Len(r.periods)}
      [] r.svc = "dashboard" ->
            {[client |-> r.clients[i].client, head |-> r.clients[i].head_count,
              total |-> r.clients[i].total_allowance] : i \in 1..Len(r.clients)}
      [] r.svc = "comparison" ->
            {[client |-> r.data[i].client, head |-> r.data[i].headcount,
              total |-> r.data[i].total_allowance] : i \in 1..Len(r.data)}
      [] r.svc = "client_dashboard" ->
            {[client |-> r.dashboard[i].client, head |-> r.dashboard[i].headcount,
              total |-> r.dashboard[i].total_allowance] : i \in 1..Len(r.dashboard)}
      [] OTHER -> {}

\* C20: in every answer of the summary, the dashboard summary, the client totals and
\* the client dashboard, a client node counts no more employees than have a stored
\* row of the client with a shift type in the active shift-key set, and holds no
\* more allowance than those rows give: rows of other shift types add nothing.
C20_RowsOutsideTheActiveShiftKeysAreExcluded ==
    \A n \in ClientNodes(resp) :
        /\ n.head <= Cardinality(ActiveEmployees(n.client, req.payload))
        /\ n.total <= ActiveAllowance(n.client, req.payload)

(***************************************************************************)
(* search_service: the clients and departments of an export and its        *)
(* headcount filter over groups.                                           *)
(***************************************************************************)
\* normalize_company_name(c) or c: a Company code in upper case becomes the company's
\* full name (DZS stands for the codes of utils/client_enums.py), any other name stays
normalize_company_name(c) ==
    IF c = <<"D", "Z", "S">> THEN <<"D", "Z", "S", " ", "I", "n", "c">> ELSE c

\* apply_client_department_filters: upper(client) LIKE %NORM%, upper(department) LIKE %D%
apply_client_department_filters(rs, client_values, dept_values) ==
    SelectSeq(rs, LAMBDA r :
        /\ Truthy(client_values) =>
              \E i \in 1..Len(client_values.l) :
                  is_substring(upper(strip(normalize_company_name(client_values.l[i]))),
                               upper(r.client))
        /\ Truthy(dept_values) =>
              \E i \in 1..Len(dept_values.l) :
                  is_substring(upper(strip(dept_values.l[i])), upper(r.department)))

\* lines 255-289: the entry of a row's employee is made, or takes the department and
\* client of a row of a later month
search_aggregate_row(agg, row) ==
    IF \A i \in 1..Len(agg) : agg[i].emp_id # row.emp_id
    THEN Append(agg, [emp_id |-> row.emp_id,
                      department |-> OrElse(row.department, UNKNOWN),
                      client |-> OrElse(row.client, UNKNOWN),
                      latest |-> row.ym])
    ELSE [i \in 1..Len(agg) |->
             IF agg[i].emp_id = row.emp_id /\ MonthIndex(row.ym) > MonthIndex(agg[i].latest)
             THEN [agg[i] EXCEPT !.department = OrElse(row.department, UNKNOWN),
                                 !.client = OrElse(row.client, UNKNOWN),
                                 !.latest = row.ym]
             ELSE agg[i]]

\* _aggregate_unique_employees: one entry per emp_id, in the order of first appearance
RECURSIVE _aggregate_unique_employees(_, _)
_aggregate_unique_employees(agg, all_rows) ==
    IF all_rows = <<>> THEN agg
    ELSE _aggregate_unique_employees(search_aggregate_row(agg, Head(all_rows)), Tail(all_rows))

\* str(emp.get(group_key) or "UNKNOWN").upper()
search_group_of(emp, group_key) ==
    IF group_key = "department" THEN upper(OrElse(emp.department, UNKNOWN))
    ELSE upper(OrElse(emp.client, UNKNOWN))

\* _apply_headcount_filter(unique_employees, group_key, ranges): positions in a range
\* when group_key is None, else the employees of the groups whose size is in a range
_apply_headcount_filter(unique_employees, group_key, ranges) ==
    IF ranges = <<>> THEN unique_employees
    ELSE IF group_key = "none"
    THEN PickAt(unique_employees, search_allowed_indices(Len(unique_employees), ranges))
    ELSE SelectSeq(unique_employees, LAMBDA emp :
            \E x \in Range(ranges) :
                /\ x.start <= Cardinality({i \in 1..Len(unique_employees) :
                                              search_group_of(unique_employees[i], group_key)
                                                  = search_group_of(emp, group_key)})
                /\ Cardinality({i \in 1..Len(unique_employees) :
                                   search_group_of(unique_employees[i], group_key)
                                       = search_group_of(emp, group_key)}) <= x.end)

\* lines 515-519: group_key
search_group_key(dept_vals, client_vals) ==
    IF Truthy(dept_vals) THEN "department"
    ELSE IF Truthy(client_vals) THEN "client"
    ELSE "none"

HeadcountResp(by, kind, emp_ids) ==
    [svc |-> "headcount", by |-> by, kind |-> kind, emp_ids |-> emp_ids]

\* lines 521-526: filtered_employees and filtered_emp_ids
export_filtered_emp_ids(filtered_employees) ==
    IF filtered_employees = <<>> THEN HeadcountResp("export", "error", {})
    ELSE HeadcountResp("export", "ok",
                       {filtered_employees[i].emp_id : i \in 1..Len(filtered_employees)})

\* export_filtered_excel, lines 501-526, for the rows all_rows of the resolved periods:
\* the employees whose rows the file lists
export_filtered_employees(payload, all_rows) ==
    IF all_rows = <<>> THEN HeadcountResp("export", "error", {})
    ELSE IF _parse_headcount_ranges(payload.headcounts).t = "error"
    THEN HeadcountResp("export", "error", {})
    ELSE export_filtered_emp_ids(
            _apply_headcount_filter(
                _aggregate_unique_employees(<<>>, all_rows),
                search_group_key(search_normalize_to_list(payload.departments),
                                 search_normalize_to_list(payload.clients)),
                _parse_headcount_ranges(payload.headcounts).r))

(***************************************************************************)
(* The headcount model: three employees of client C1, two in department D1 *)
(* and one in D2, have rows in one month; the export and the summary are   *)
(* asked for that month with a headcount filter, with and without a        *)
(* selection of clients and departments.                                   *)
(***************************************************************************)
E3 == <<"E", "3">>

HeadcountRows ==
    {Row(E1, C1, D1, ShiftA, 1, AggPeriod), Row(E2, C1, D2, ShiftA, 1, AggPeriod),
     Row(E3, C1, D1, ShiftA, 1, AggPeriod)}

HeadcountClients == {PyStr(ALL), PyList(<<C1>>)}

HeadcountDepartments == {PyStr(ALL), PyList(<<D1>>), PyList(<<D1, D2>>)}

HeadcountRanges == {PyStr(ALL), PyList(<<Str(<<"1">>)>>), PyList(<<Str(<<"2">>)>>)}

HeadcountSummaryPayloads ==
    {[SummaryPayload(h, "", "", <<AggPeriod.y>>, <<AggPeriod.m>>) EXCEPT
          !.clients = c, !.departments = d] :
        h \in HeadcountRanges, c \in HeadcountClients, d \in HeadcountDepartments}

HeadcountExportPayloads ==
    {[clients |-> c, departments |-> d, headcounts |-> h,
      years |-> <<AggPeriod.y>>, months |-> <<AggPeriod.m>>] :
        h \in HeadcountRanges, c \in HeadcountClients, d \in HeadcountDepartments}

InitHeadcount ==
    /\ rows = <<>>
    /\ rates = AggRates
    /\ shiftKeys = AggShiftKeys
    /\ today = AggToday
    /\ cache = {}
    /\ req = NoReq
    /\ resp = NoResp
    /\ files = {}
    /\ workers = NoWorkers
    /\ uploaded_files = <<>>

StoreHeadcountRow == StoreRow(HeadcountRows)

HeadcountSummaryRequest == SummaryRequest(HeadcountSummaryPayloads)

\* POST /search export for an explicit period in the past
ExportFilteredEmployees ==
    /\ resp = NoResp
    /\ \E payload \in HeadcountExportPayloads :
        /\ req' = [svc |-> "export", payload |-> payload]
        /\ resp' = export_filtered_employees(
                       payload,
                       export_all_rows(
                           apply_client_department_filters(
                               rows, search_normalize_to_list(payload.clients),
                               search_normalize_to_list(payload.departments)),
                           year_month_product(payload.years, payload.months)))
    /\ UNCHANGED <<rows, rates, shiftKeys, today, cache, files, workers, uploaded_files>>

NextHeadcount ==
    \/ StoreHeadcountRow
    \/ HeadcountSummaryRequest
    \/ ExportFilteredEmployees
    \/ Deliver

SpecHeadcount == InitHeadcount /\ [][NextHeadcount]_vars

\* the stored rows a payload's clients and departments select
SelectedRows(payload) ==
    SelectSeq(rows, LAMBDA r :
        /\ payload.clients.t = "list" => r.client \in Range(payload.clients.l)
        /\ payload.departments.t = "list" => r.department \in Range(payload.departments.l))

\* the group a row is counted in: its department when departments are selected,
\* else its client
GroupOf(r, payload) ==
    IF payload.departments.t = "list" THEN <<r.client, r.department>> ELSE <<r.client>>

\* the number of distinct employees of a group among the selected rows
GroupHeadCount(g, payload) ==
    Cardinality({SelectedRows(payload)[i].emp_id :
                    i \in {j \in 1..Len(SelectedRows(payload)) :
                              GroupOf(SelectedRows(payload)[j], payload) = g}})

\* the employees of the groups whose head count the filter asks for
EmployeesOfMatchingGroups(payload) ==
    {SelectedRows(payload)[i].emp_id :
        i \in {j \in 1..Len(SelectedRows(payload)) :
                  range_matches(GroupHeadCount(GroupOf(SelectedRows(payload)[j], payload),
                                               payload),
                                parse_headcount_ranges(payload.headcounts))}}

\* the employees a response lists
EmployeesListed(r) ==
    CASE r.svc = "headcount" -> r.emp_ids
      [] r.svc = "summary" ->
            UNION {UNION {UNION {{r.periods[p].clients[c].departments[d].employees[e].emp_id :
                                     e \in 1..Len(r.periods[p].clients[c].departments[d].employees)} :
                                 d \in 1..Len(r.periods[p].clients[c].departments)} :
                          c \in 1..Len(r.periods[p].clients)} :
                   p \in 1..Len(r.periods)}
      [] OTHER -> {}

\* C21: a summary or an export with a headcount filter lists exactly the employees of
\* the groups whose number of distinct employees is in a requested range, the groups
\* being the departments when the request selects departments and the clients in
\* every other case.
C21_HeadcountFilterCountsPerDepartmentOrClient ==
    (/\ resp.svc \in {"headcount", "summary"}
     /\ req.payload.headcounts # PyStr(ALL)) =>
        EmployeesListed(resp) = EmployeesOfMatchingGroups(req.payload)

(***************************************************************************)
(* The default-period model: rows of clients C1 and C2 are stored for the  *)
(* current month and for two months before it, and the dashboard summary,  *)
(* the summary's and the export's period resolution are asked without      *)
(* years and months, for every client or for client C1.                    *)
(***************************************************************************)
DefaultMonths == {YM(2025, 3), YM(2025, 5), AggToday}

DefaultRows == {Row(E1, c, D1, ShiftA, 1, ym) : c \in {C1, C2}, ym \in DefaultMonths}

DefaultClients == {PyStr(ALL), PyList(<<C1>>)}

DefaultDashboardPayloads ==
    {[DashboardPayload(PyNone, <<>>, <<>>) EXCEPT !.clients = c] : c \in DefaultClients}

DefaultSummaryPayloads ==
    {[SummaryPayload(PyStr(ALL), "", "", <<>>, <<>>) EXCEPT !.clients = c] :
        c \in DefaultClients}

InitDefault ==
    /\ rows = <<>>
    /\ rates = AggRates
    /\ shiftKeys = AggShiftKeys
    /\ today = AggToday
    /\ cache = {}
    /\ req = NoReq
    /\ resp = NoResp
    /\ files = {}
    /\ workers = NoWorkers
    /\ uploaded_files = <<>>

StoreDefaultRow == StoreRow(DefaultRows)

DefaultDashboardRequest == DashboardRequest(DefaultDashboardPayloads)

\* client_summary_service, lines 312-328: months_to_use under the request's filters
DefaultSummaryPeriods ==
    /\ resp = NoResp
    /\ \E payload \in DefaultSummaryPayloads :
        /\ req' = [svc |-> "periods", payload |-> payload]
        /\ resp' = PeriodResp("summary", "ok",
                              resolve_target_months(
                                  rows, today, payload.years, payload.months,
                                  SummaryFilters(payload,
                                      summary_allowed_shifts(payload.shifts,
                                                             get_shift_keys(shiftKeys)).e)),
                              <<>>)
    /\ UNCHANGED <<rows, rates, shiftKeys, today, cache, files, workers, uploaded_files>>

\* search_service.export_filtered_excel, lines 358-457: the periods under the
\* request's client filter
DefaultExportPeriods ==
    /\ resp = NoResp
    /\ \E payload \in DefaultSummaryPayloads :
        \E out \in {export_periods(payload.years, payload.months, today, rows,
                                    apply_client_department_filters(
                                        rows, search_normalize_to_list(payload.clients),
                                        search_normalize_to_list(payload.departments)))} :
            /\ req' = [svc |-> "periods", payload |-> payload]
            /\ resp' = PeriodResp("export", out.kind, out.periods, export_messages(out.meta))
    /\ UNCHANGED <<rows, rates, shiftKeys, today, cache, files, workers, uploaded_files>>

NextDefault ==
    \/ StoreDefaultRow
    \/ DefaultDashboardRequest
    \/ DefaultSummaryPeriods
    \/ DefaultExportPeriods
    \/ Deliver

SpecDefault == InitDefault /\ [][NextDefault]_vars

\* the months that have a stored row of a client the request selects
MonthsUnderFilters(payload) ==
    StoredMonths(SelectSeq(rows, LAMBDA r :
                     payload.clients.t = "list" => r.client \in Range(payload.clients.l)))

\* the periods a response names
PeriodsNamed(r) == IF r.svc = "dashboard" THEN r.selected_periods ELSE r.periods

\* C22: a request without years and months, while some month up to the current one
\* has a row of a selected client, is answered for the latest such month: for the
\* current month only if it has a row of a selected client.
C22_DefaultPeriodIsResolvedUnderTheFilters ==
    (/\ resp.svc \in {"dashboard", "periods"}
     /\ MonthsUnderFilters(req.payload) # {}) =>
        PeriodsNamed(resp) = <<LatestOf(MonthsUnderFilters(req.payload))>>

(***************************************************************************)
(* dashboard_service.apply_sort_dict_dashboard, over the finalized client  *)
(* nodes [client, total_allowance, head_count, departments] in the order   *)
(* of the dict.                                                            *)
(***************************************************************************)
\* the sort key of one item: the key in lower case for "client" and
\* "client_partner", else node.get(key_map.get(sort_by, sort_by), 0) or 0
dashboard_sort_key(node, sort_by) ==
    CASE sort_by \in {"client", "client_partner"} -> StrKey(lower(node.client))
      [] sort_by = "headcount" -> node.head_count
      [] sort_by = "departments" -> node.departments
      [] sort_by = "total_allowance" -> node.total_allowance
      [] OTHER -> 0

apply_sort_dict_dashboard(data, sort_by, sort_order) ==
    IF sort_order = "default" \/ sort_by = "" THEN data
    ELSE SortPy(data, [i \in 1..Len(data) |-> dashboard_sort_key(data[i], sort_by)],
                sort_order = "desc")

(***************************************************************************)
(* The sort model: client C1 has two departments with little allowance,    *)
(* client C2 one department with more; the client totals are asked for and *)
(* the dashboard's client nodes are sorted, by each sort key.              *)
(***************************************************************************)
MaxSortRows == 3

SortRows ==
    {Row(E1, C1, D1, ShiftA, 1, AggPeriod), Row(E1, C1, D2, ShiftA, 1, AggPeriod),
     Row(E2, C2, D1, ShiftA, 3, AggPeriod), Row(E2, C2, D1, ShiftB, 1, AggPeriod)}

SortOrders == {"default", "asc", "desc"}

SortComparisonFilters ==
    {[ComparisonFilters(PyNone, <<AggPeriod.y>>, <<AggPeriod.m>>) EXCEPT
          !.sort_by = sb, !.sort_order = so] : sb \in SortBy, so \in SortOrders}

InitSort ==
    /\ rows = <<>>
    /\ rates = AggRates
    /\ shiftKeys = AggShiftKeys
    /\ today = AggToday
    /\ cache = {}
    /\ req = NoReq
    /\ resp = NoResp
    /\ files = {}
    /\ workers = NoWorkers
    /\ uploaded_files = <<>>

\* A row is stored (an upload commits)
StoreSortRow ==
    /\ resp = NoResp
    /\ Len(rows) < MaxSortRows
    /\ \E r \in SortRows : rows' = Append(rows, r)
    /\ UNCHANGED <<rates, shiftKeys, today, cache, req, resp, files, workers, uploaded_files>>

SortComparisonRequest == ComparisonRequest(SortComparisonFilters)

\* apply_sort_dict_dashboard(dashboard["clients"], sort_by, sort_order) on the client
\* nodes get_client_dashboard_summary builds for the stored period
DashboardNodesSorted ==
    /\ resp = NoResp
    /\ \E sb \in SortBy, so \in SortOrders :
        /\ req' = [svc |-> "sort", payload |-> [sort_by |-> sb, sort_order |-> so]]
        /\ resp' = [svc |-> "sorted",
                    nodes |-> apply_sort_dict_dashboard(
                                  get_client_dashboard_summary(
                                      DashboardPayload(PyNone, <<AggPeriod.y>>, <<AggPeriod.m>>),
                                      rows, rates, shiftKeys, today).clients,
                                  sb, so)]
    /\ UNCHANGED <<rows, rates, shiftKeys, today, cache, files, workers, uploaded_files>>

NextSort ==
    \/ StoreSortRow
    \/ SortComparisonRequest
    \/ DashboardNodesSorted
    \/ Deliver

SpecSort == InitSort /\ [][NextSort]_vars

\* the number of distinct departments under each node of a response, in its order
DepartmentCounts(r) ==
    CASE r.svc = "comparison" -> [i \in 1..Len(r.data) |-> Len(r.data[i].departments)]
      [] r.svc = "sorted" -> [i \in 1..Len(r.nodes) |-> r.nodes[i].departments]
      [] OTHER -> <<>>

\* C23: with sort_by "departments" the nodes of the client totals and of the sorted
\* dashboard come in the order of their department counts: never falling for
\* sort_order asc, never rising for desc.
C23_DepartmentsSortIsByDepartmentCount ==
    (/\ resp.svc \in {"comparison", "sorted"}
     /\ req.payload.sort_by = "departments"
     /\ req.payload.sort_order \in {"asc", "desc"}) =>
        \A i, j \in 1..Len(DepartmentCounts(resp)) :
            i < j => IF req.payload.sort_order = "asc"
                     THEN DepartmentCounts(resp)[i] <= DepartmentCounts(resp)[j]
                     ELSE DepartmentCounts(resp)[i] >= DepartmentCounts(resp)[j]

(***************************************************************************)
(* The identity model: rows with and without an employee id, for two       *)
(* employee names, are stored for one client and department, and the four  *)
(* aggregating services are asked for the stored period.                   *)
(***************************************************************************)
NamedRow(emp, name) ==
    [emp_name |-> name] @@ Row(emp, C1, D1, ShiftA, 1, AggPeriod)

IdentityRows == {NamedRow(e, n) : e \in {<<>>, E1}, n \in {<<"a">>, <<"b">>}}

IdentitySummaryPayloads ==
    {SummaryPayload(PyStr(ALL), sb, "", <<AggPeriod.y>>, <<AggPeriod.m>>) :
        sb \in {"", "head_count"}}

IdentityDashboardPayloads ==
    {[DashboardPayload(PyNone, <<AggPeriod.y>>, <<AggPeriod.m>>) EXCEPT !.sort_order = so] :
        so \in {"default", "asc"}}

IdentityComparisonFilters ==
    {[ComparisonFilters(PyNone, <<AggPeriod.y>>, <<AggPeriod.m>>) EXCEPT !.sort_by = sb] :
        sb \in {"", "headcount"}}

IdentityClientDashboardFilters ==
    {ClientDashboardFilter(PyStr(ALL), <<AggPeriod.y>>, ms) :
        ms \in {<<AggPeriod.m>>, <<>>}}

InitIdentity ==
    /\ rows = <<>>
    /\ rates = AggRates
    /\ shiftKeys = AggShiftKeys
    /\ today = AggToday
    /\ cache = {}
    /\ req = NoReq
    /\ resp = NoResp
    /\ files = {}
    /\ workers = NoWorkers
    /\ uploaded_files = <<>>

StoreIdentityRow == StoreRow(IdentityRows)

IdentitySummaryRequest == SummaryRequest(IdentitySummaryPayloads)

IdentityDashboardRequest == DashboardRequest(IdentityDashboardPayloads)

IdentityComparisonRequest == ComparisonRequest(IdentityComparisonFilters)

\* POST /dashboard-Table
IdentityClientDashboardRequest ==
    /\ resp = NoResp
    /\ \E filters \in IdentityClientDashboardFilters :
        /\ req' = [svc |-> "client_dashboard", payload |-> filters]
        /\ resp' = get_client_dashboard(filters, rows, rates, shiftKeys, today)
    /\ UNCHANGED <<rows, rates, shiftKeys, today, cache, files, workers, uploaded_files>>

NextIdentity ==
    \/ StoreIdentityRow
    \/ IdentitySummaryRequest
    \/ IdentityDashboardRequest
    \/ IdentityComparisonRequest
    \/ IdentityClientDashboardRequest
    \/ Deliver

SpecIdentity == InitIdentity /\ [][NextIdentity]_vars

\* the identity of a row's employee: the id, or name, department and client
IdentityOf(r) ==
    IF clean_str(r.emp_id) # <<>> THEN <<clean_str(r.emp_id)>>
    ELSE <<r.emp_name, r.department, r.client>>

\* the distinct employees with a stored row of a client
IdentitiesOf(client) ==
    {IdentityOf(rows[i]) : i \in {j \in 1..Len(rows) : clean_str(rows[j].client) = client}}

\* C24: when a row without an employee id is stored, every client node of an answer
\* counts the distinct employees of the client's rows, a row without an id standing
\* for the employee given by its name, department and client.
C24_RowsWithoutIdCountByCompositeIdentity ==
    (\E i \in 1..Len(rows) : rows[i].emp_id = <<>>) =>
        \A n \in ClientNodes(resp) : n.head = Cardinality(IdentitiesOf(n.client))

(***************************************************************************)
(* Concurrent requests.  The summary and the download handler are cut into *)
(* the steps between which another request can run: the cache lookup, the  *)
(* computation, mkstemp, the writing of the temporary file, os.replace and *)
(* cache.set.  A path is [kind, hash, n]: the default export file, the     *)
(* file named after the hash of a payload, or the n-th temporary file of   *)
(* the export directory.  A file is [path, content, complete].             *)
(***************************************************************************)
\* os.path.join(EXPORT_DIR, DEFAULT_EXPORT_FILE)
final_default_path == [kind |-> "default", hash |-> {}, n |-> 0]

\* os.path.join(EXPORT_DIR, hashed_name): one name for each payload
hashed_path(payload) == [kind |-> "hashed", hash |-> {payload}, n |-> 0]

\* the path the download handler writes for a payload
download_final_path(payload) ==
    IF is_default_latest_month_request(payload) THEN final_default_path
    ELSE hashed_path(payload)

\* the temporary file is written in place of the final one
mkstemp_in_place(final_path, n) == final_path

\* tempfile.mkstemp(dir=..., prefix=".tmp_", suffix=".xlsx"): a fresh name in the
\* directory of the final path
mkstemp(final_path, n) == [kind |-> "temp", hash |-> final_path.hash, n |-> n]

\* os.path.exists(path)
os_path_exists(fs, path) == \E f \in fs : f.path = path

\* the file at a path
FileAt(fs, path) == CHOOSE f \in fs : f.path = path

\* mkstemp creates the file empty; _write_excel_to_path has not finished
os_create(fs, path) ==
    {f \in fs : f.path # path} \cup {[path |-> path, content |-> NoResp, complete |-> FALSE]}

\* _write_excel_to_path(df, currency_cols, temp_path, notes_lines): the workbook is closed
_write_excel_to_path(fs, path, content) ==
    {f \in fs : f.path # path} \cup {[path |-> path, content |-> content, complete |-> TRUE]}

\* os.replace(temp_path, final_path)
os_replace(fs, temp_path, final_path) ==
    IF temp_path = final_path THEN fs
    ELSE {f \in fs : f.path \notin {temp_path, final_path}}
         \cup {[FileAt(fs, temp_path) EXCEPT !.path = final_path]}

\* _atomic_write_excel(df, currency_cols, final_path, notes_lines), run without
\* interruption
_atomic_write_excel(fs, final_path, content, n) ==
    os_replace(_write_excel_to_path(os_create(fs, mkstemp(final_path, n)),
                                    mkstemp(final_path, n), content),
               mkstemp(final_path, n), final_path)

\* _build_dataframe_from_summary and _write_excel_to_path: the sheet holds the summary
\* computed for the request, that is, for its filters
ExportContent(payload, summary) ==
    [filters |-> latest_month_cache_key(payload), sheet |-> summary]

\* lines 454-458, 504-509, 525-531: the value cached with the written path
ExcelEntry(payload, written_path, latest_ym, shift_sig) ==
    [t |-> "excel",
     cached_month |-> IF is_default_latest_month_request(payload) THEN latest_ym ELSE <<>>,
     shift_sig |-> IF is_default_latest_month_request(payload) THEN shift_sig ELSE <<>>,
     file_path |-> written_path]

\* line 422: cache_key = _stable_cache_key(payload, default_req, shift_sig)
download_cache_key(payload) ==
    _stable_cache_key(payload, is_default_latest_month_request(payload))

\* lines 424-443: the cached path is returned
DownloadHit(payload, rs, keysCfg, c, fs) ==
    /\ DownloadCacheHit(CacheGet(c, download_cache_key(payload)),
                        is_default_latest_month_request(payload),
                        _get_db_latest_ym(rs), _current_shift_signature(keysCfg))
    /\ os_path_exists(fs, CacheGet(c, download_cache_key(payload)).file_path)

\* lines 446-472: client_summary_service answers a selection without data with an
\* empty result, not with a 404, so whatever it raises is raised again
DownloadRaises(payload, summary) == summary.kind = "error"

Workers == {1, 2}

ConcurrentRows == {Row(E1, C1, D1, ShiftA, 1, AggPeriod)}

ConcurrentPayloads ==
    {SummaryPayload(PyStr(ALL), "", "", <<>>, <<>>),
     SummaryPayload(PyStr(ALL), "", "", <<AggPeriod.y>>, <<AggPeriod.m>>)}

\* the position of a request: where it is in its handler, what it has computed
\* (summary), the whole entry it is about to set (pending), the latest month and
\* the shift signature read at the start, and the file it has read (seen)
Idle ==
    [pc |-> "idle", svc |-> "none", payload |-> NoReq, summary |-> NoResp, pending |-> {},
     latest_ym |-> <<>>, shift_sig |-> <<>>, path |-> final_default_path, seen |-> {}]

InitConcurrent ==
    /\ rows = <<>>
    /\ rates = AggRates
    /\ shiftKeys = AggShiftKeys
    /\ today = AggToday
    /\ cache = {}
    /\ req = NoReq
    /\ resp = NoResp
    /\ files = {}
    /\ workers = [w \in Workers |-> Idle]
    /\ uploaded_files = <<>>

StoreConcurrentRow == StoreRow(ConcurrentRows)

\* POST /client-summary arrives
SummaryBegin ==
    \E w \in Workers, payload \in ConcurrentPayloads :
        /\ workers[w].pc = "idle"
        /\ workers' = [workers EXCEPT ![w] =
                          [Idle EXCEPT !.pc = "compute", !.svc = "summary",
                                       !.payload = payload]]
        /\ UNCHANGED <<rows, rates, shiftKeys, today, cache, req, resp, files,
                       uploaded_files>>

\* POST /client-summary/download arrives; lines 408-443: the key is built, the
\* cache read and a cached path returned
DownloadBegin ==
    \E w \in Workers, payload \in ConcurrentPayloads :
        /\ workers[w].pc = "idle"
        /\ workers' = [workers EXCEPT ![w] =
              [Idle EXCEPT
                 !.pc = IF DownloadHit(payload, rows, shiftKeys, cache, files)
                        THEN "returned" ELSE "compute",
                 !.svc = "download",
                 !.payload = payload,
                 !.latest_ym = _get_db_latest_ym(rows),
                 !.shift_sig = _current_shift_signature(shiftKeys),
                 !.path = IF DownloadHit(payload, rows, shiftKeys, cache, files)
                          THEN CacheGet(cache, download_cache_key(payload)).file_path
                          ELSE download_final_path(payload)]]
        /\ UNCHANGED <<rows, rates, shiftKeys, today, cache, req, resp, files,
                       uploaded_files>>

\* client_summary_service lines 321-539: the cache is read and the response computed;
\* the entry of lines 541-544 is ready to be set
Compute ==
    \E w \in Workers :
        /\ workers[w].pc = "compute"
        /\ \E out \in {client_summary_service(workers[w].payload, rows, rates, shiftKeys,
                                              today, cache)} :
            workers' = [workers EXCEPT ![w].pc = "set",
                                       ![w].summary = out.resp,
                                       ![w].pending = out.cache \ cache]
        /\ UNCHANGED <<rows, rates, shiftKeys, today, cache, req, resp, files,
                       uploaded_files>>

\* cache.set(key, value, expire=CACHE_TTL) of a handler: the pending entry replaces
\* what is stored under its key
CachePut(c, pending) ==
    {en \in c : \A p \in pending : en.key # p.key} \cup pending

\* where a handler goes on after its cache.set
AfterSet(pos) ==
    CASE pos.pc = "set_excel" -> "returned"
      [] pos.svc = "summary" -> "done"
      [] DownloadRaises(pos.payload, pos.summary) -> "done"
      [] OTHER -> "mkstemp"

\* client_summary_service line 542 and download service lines 457, 471, 507, 521,
\* 528, 542
WorkerCacheSet ==
    \E w \in Workers :
        /\ workers[w].pc \in {"set", "set_excel"}
        /\ cache' = CachePut(cache, workers[w].pending)
        /\ workers' = [workers EXCEPT ![w].pc = AfterSet(workers[w]),
                                      ![w].pending = {}]
        /\ UNCHANGED <<rows, rates, shiftKeys, today, req, resp, files, uploaded_files>>

\* _atomic_write_excel lines 183-188: the temporary file is created
Mkstemp ==
    \E w \in Workers :
        /\ workers[w].pc = "mkstemp"
        /\ files' = os_create(files, mkstemp(workers[w].path, w))
        /\ workers' = [workers EXCEPT ![w].pc = "write"]
        /\ UNCHANGED <<rows, rates, shiftKeys, today, cache, req, resp, uploaded_files>>

\* _atomic_write_excel line 190: the workbook is written to the temporary file
WriteExcel ==
    \E w \in Workers :
        /\ workers[w].pc = "write"
        /\ files' = _write_excel_to_path(files, mkstemp(workers[w].path, w),
                                         ExportContent(workers[w].payload,
                                                       workers[w].summary))
        /\ workers' = [workers EXCEPT ![w].pc = "replace"]
        /\ UNCHANGED <<rows, rates, shiftKeys, today, cache, req, resp, uploaded_files>>

\* _atomic_write_excel lines 191-192: the temporary file is moved into place
Replace ==
    \E w \in Workers :
        /\ workers[w].pc = "replace"
        /\ files' = os_replace(files, mkstemp(workers[w].path, w), workers[w].path)
        /\ workers' = [workers EXCEPT
              ![w].pc = "set_excel",
              ![w].pending = {[key |-> download_cache_key(workers[w].payload),
                               value |-> ExcelEntry(workers[w].payload, workers[w].path,
                                                    workers[w].latest_ym,
                                                    workers[w].shift_sig)]}]
        /\ UNCHANGED <<rows, rates, shiftKeys, today, cache, req, resp, uploaded_files>>

\* the route opens the returned path to send the file
ReadFile ==
    \E w \in Workers :
        /\ workers[w].pc = "returned"
        /\ workers' = [workers EXCEPT ![w].pc = "done",
                                      ![w].seen = {f \in files : f.path = workers[w].path}]
        /\ UNCHANGED <<rows, rates, shiftKeys, today, cache, req, resp, files,
                       uploaded_files>>

\* the response is sent
Finish ==
    \E w \in Workers :
        /\ workers[w].pc = "done"
        /\ workers' = [workers EXCEPT ![w] = Idle]
        /\ UNCHANGED <<rows, rates, shiftKeys, today, cache, req, resp, files,
                       uploaded_files>>

NextConcurrent ==
    \/ StoreConcurrentRow
    \/ SummaryBegin
    \/ DownloadBegin
    \/ Compute
    \/ WorkerCacheSet
    \/ Mkstemp
    \/ WriteExcel
    \/ Replace
    \/ ReadFile
    \/ Finish

SpecConcurrent == InitConcurrent /\ [][NextConcurrent]_vars

\* a file other than a temporary one, and a file a request has read, is complete
ExportsComplete ==
    /\ \A f \in files : f.path.kind # "temp" => f.complete
    /\ \A w \in Workers : \A f \in workers[w].seen : f.complete

\* C25: under any interleaving of concurrent summary and download requests, a file of
\* the export directory that is not a temporary file is complete, a request that reads
\* a returned path reads a complete file, and every step that changes the cache puts
\* in whole the entries one request had ready when its computation ended: no entry is
\* built from the entry stored before.
C25_EntriesAndFilesAreWrittenWhole ==
    [][/\ ExportsComplete'
       /\ \A en \in cache' \ cache :
             \E w \in Workers : en \in workers[w].pending /\ workers'[w].pending = {}]_vars

\* a request has read the complete file of a path another request is writing anew
C25_Witness ==
    \E w1 \in Workers, w2 \in Workers :
        /\ workers[w1].pc = "done" /\ workers[w1].seen # {}
        /\ workers[w2].pc = "write" /\ workers[w2].path = workers[w1].path
        /\ \E f \in files : ~f.complete

(***************************************************************************)
(* get_client_dashboard_summary: the client-partner view of the fold.      *)
(* Next to the client nodes the loop keeps one node for each client        *)
(* partner, and in it one node for each client of that partner.            *)
(***************************************************************************)
Unassigned == <<"U", "n", "a", "s", "s", "i", "g", "n", "e", "d">>

\* empty_node() of a client partner, with its key and its "clients" dict
DashPartnerNode(cp_name) ==
    [client_partner |-> cp_name, total_allowance |-> 0, head_count |-> {}, dept_set |-> {},
     clients |-> <<>>]

\* lines 1180-1186, 1191-1197, 1204-1210: the row is added to one node
DashNodeAdd(node, dept, ids, allowance) ==
    [node EXCEPT !.total_allowance = @ + allowance,
                 !.head_count = @ \cup ids,
                 !.dept_set = @ \cup {dept}]

\* the nested client node takes the row's allowance in place of adding it
DashPartnerUpdate_assign(a, client, dept, ids, allowance) ==
    [DashNodeAdd(a, dept, ids, allowance) EXCEPT
        !.clients = Upsert(a.clients, "client", client,
                           [DashEmptyNode(client) EXCEPT !.total_allowance = allowance,
                                                         !.head_count = ids,
                                                         !.dept_set = {dept}])]

\* lines 1190-1215: the partner node a and its nested client node a_client
DashPartnerUpdate(a, client, dept, ids, allowance) ==
    [DashNodeAdd(a, dept, ids, allowance) EXCEPT
        !.clients = Upsert(a.clients, "client", client,
                           DashNodeAdd(Lookup(a.clients, "client", client,
                                              DashEmptyNode(client)),
                                       dept, ids, allowance))]

\* a = dashboard["client_partner"].setdefault(cp_name, empty_node())
DashPartnerAddRow(partners, cp_name, client, dept, ids, allowance) ==
    Upsert(partners, "client_partner", cp_name,
           DashPartnerUpdate(Lookup(partners, "client_partner", cp_name,
                                    DashPartnerNode(cp_name)),
                             client, dept, ids, allowance))

\* lines 1157-1215: one iteration of the loop, for the client-partner view
DashPartnerFoldRow(partners, row, rateTable, shift_types, selected_shifts) ==
    IF shift_types # {} /\ upper(clean_str(row.shift_type)) \notin shift_types THEN partners
    ELSE IF /\ Truthy(selected_shifts)
            /\ upper(clean_str(row.shift_type)) \notin selected_shifts.e
         THEN partners
         ELSE DashPartnerAddRow(partners,
                                OrElse(clean_str(row.client_partner), Unassigned),
                                OrElse(clean_str(row.client), UNKNOWN),
                                OrElse(clean_str(row.department), UNKNOWN),
                                IdSet(clean_str(row.emp_id)),
                                row.days * DashboardAmount(rateTable, row.shift_type,
                                                           row.ym.y))

RECURSIVE DashPartnerFold(_, _, _, _, _)
DashPartnerFold(partners, rs, rateTable, shift_types, selected_shifts) ==
    IF rs = <<>> THEN partners
    ELSE DashPartnerFold(DashPartnerFoldRow(partners, Head(rs), rateTable, shift_types,
                                            selected_shifts),
                         Tail(rs), rateTable, shift_types, selected_shifts)

\* the dashboard dict and the local total_allowance when the loop has ended
DashFolded(queried, rateTable, shift_types, selected_shifts) ==
    [svc |-> "dashboard_fold",
     total_allowance |-> DashFold(DashEmpty, queried, rateTable, shift_types,
                                  selected_shifts).total_allowance,
     clients |-> DashFold(DashEmpty, queried, rateTable, shift_types,
                          selected_shifts).clients,
     client_partner |-> DashPartnerFold(<<>>, queried, rateTable, shift_types,
                                        selected_shifts)]

\* lines 1015-1215 for a payload that names its periods
DashFoldOf(payload, rs, rateTable, keysCfg, todayYM) ==
    DashFolded(DashboardRows(rs, rateTable, _normalize_to_list(payload.clients),
                             _normalize_to_list(payload.departments),
                             validate_years_months_with_warnings(payload.years,
                                                                 payload.months,
                                                                 todayYM, rs).pairs,
                             parse_shifts(payload.shifts, SHIFT_TYPES(keysCfg)),
                             parse_headcount_limit(payload.headcounts)),
               rateTable, SHIFT_TYPES(keysCfg),
               parse_shifts(payload.shifts, SHIFT_TYPES(keysCfg)))

MaxPartnerRows == 3

Pa == PartnerOf(C1)

PartnerRows ==
    {Row(E1, C1, D1, ShiftA, 1, AggPeriod),
     Row(E2, C2, D1, ShiftB, 2, AggPeriod),
     [Row(E1, C2, D2, ShiftA, 1, AggPeriod) EXCEPT !.client_partner = Pa],
     [Row(E3, C1, D1, ShiftA, 2, AggPeriod) EXCEPT !.client_partner = <<>>],
     Row(E2, C1, D1, ShiftZ, 1, AggPeriod)}

PartnerPayloads ==
    {[DashboardPayload(h, <<AggPeriod.y>>, <<AggPeriod.m>>) EXCEPT !.shifts = sh] :
        h \in {PyNone, PyStr(<<"1">>)}, sh \in {PyNone, PyList(<<ShiftA>>)}}

InitPartner ==
    /\ rows = <<>>
    /\ rates = AggRates
    /\ shiftKeys = AggShiftKeys
    /\ today = AggToday
    /\ cache = {}
    /\ req = NoReq
    /\ resp = NoResp
    /\ files = {}
    /\ workers = NoWorkers
    /\ uploaded_files = <<>>

\* A row is stored (an upload commits)
StorePartnerRow ==
    /\ resp = NoResp
    /\ Len(rows) < MaxPartnerRows
    /\ \E r \in PartnerRows : rows' = Append(rows, r)
    /\ UNCHANGED <<rates, shiftKeys, today, cache, req, resp, files, workers,
                   uploaded_files>>

\* POST /dashboard/client-dashboard-summary, observed when its loop has ended
DashboardFold ==
    /\ resp = NoResp
    /\ \E payload \in PartnerPayloads :
        /\ req' = [svc |-> "dashboard", payload |-> payload]
        /\ resp' = DashFoldOf(payload, rows, rates, shiftKeys, today)
    /\ UNCHANGED <<rows, rates, shiftKeys, today, cache, files, workers, uploaded_files>>

NextPartner ==
    \/ StorePartnerRow
    \/ DashboardFold
    \/ Deliver

SpecPartner == InitPartner /\ [][NextPartner]_vars

\* the sum of total_allowance over a dict of nodes
NodesTotal(nodes) == SumSeq([i \in 1..Len(nodes) |-> nodes[i].total_allowance])

\* C26: when the loop of get_client_dashboard_summary has ended, the totals of the
\* client nodes and the totals of the client-partner nodes both add up to the grand
\* total, and the totals of the client nodes nested in a client-partner node add up
\* to the total of that node.
C26_ClientAndPartnerViewsAgree ==
    resp.svc = "dashboard_fold" =>
        /\ NodesTotal(resp.clients) = resp.total_allowance
        /\ NodesTotal(resp.client_partner) = resp.total_allowance
        /\ \A i \in 1..Len(resp.client_partner) :
              NodesTotal(resp.client_partner[i].clients)
                  = resp.client_partner[i].total_allowance

\* the rows folded made two client partners, one of them with two clients under it
C26_Witness ==
    /\ resp.svc = "dashboard_fold"
    /\ Len(resp.client_partner) >= 2
    /\ Len(rows) = MaxPartnerRows
    /\ \E i \in 1..Len(resp.client_partner) :
          /\ Len(resp.client_partner[i].clients) >= 2
          /\ resp.client_partner[i].total_allowance > 0

(***************************************************************************)
(* client_summary_service: the totals of a response, level by level.       *)
(***************************************************************************)
MaxTotalsRows == 3

TotalsRows ==
    {Row(E1, C1, D1, ShiftA, 2, AggPeriod),
     Row(E2, C1, D2, ShiftB, 1, AggPeriod),
     Row(E1, C1, D1, ShiftB, 1, AggPeriod),
     Row(E1, C2, D1, ShiftA, 1, AggPeriod)}

TotalsPayloads ==
    {SummaryPayload(h, "", "", <<AggPeriod.y>>, <<AggPeriod.m>>) :
        h \in {PyStr(ALL), PyList(<<Str(<<"1">>)>>), PyList(<<Str(<<"2", "-", "5">>)>>)}}

InitTotals ==
    /\ rows = <<>>
    /\ rates = AggRates
    /\ shiftKeys = AggShiftKeys
    /\ today = AggToday
    /\ cache = {}
    /\ req = NoReq
    /\ resp = NoResp
    /\ files = {}
    /\ workers = NoWorkers
    /\ uploaded_files = <<>>

\* A row is stored (an upload commits)
StoreTotalsRow ==
    /\ resp = NoResp
    /\ Len(rows) < MaxTotalsRows
    /\ \E r \in TotalsRows : rows' = Append(rows, r)
    /\ UNCHANGED <<rates, shiftKeys, today, cache, req, resp, files, workers,
                   uploaded_files>>

TotalsSummaryRequest == SummaryRequest(TotalsPayloads)

NextTotals ==
    \/ StoreTotalsRow
    \/ TotalsSummaryRequest
    \/ Deliver

SpecTotals == InitTotals /\ [][NextTotals]_vars

\* the department's total and per-shift totals are the sums over its employee entries
DeptTotalsAddUp(d) ==
    /\ d.dept_total = SumSeq([j \in 1..Len(d.employees) |-> d.employees[j].total])
    /\ \A k \in DOMAIN d.shifts :
          d.shifts[k] = SumSeq([j \in 1..Len(d.employees) |-> d.employees[j].shifts[k]])

\* the client's total and per-shift totals are the sums over its departments
ClientTotalsAddUp(c) ==
    /\ c.client_total = SumSeq([i \in 1..Len(c.departments) |-> c.departments[i].dept_total])
    /\ \A k \in DOMAIN c.shifts :
          c.shifts[k] = SumSeq([i \in 1..Len(c.departments) |-> c.departments[i].shifts[k]])
    /\ \A i \in 1..Len(c.departments) : DeptTotalsAddUp(c.departments[i])

\* month_total is the sum over the clients the month lists
MonthTotalsAddUp(node) ==
    /\ node.month_total.total_allowance
           = SumSeq([i \in 1..Len(node.clients) |-> node.clients[i].client_total])
    /\ node.month_total.total_head_count
           = SumSeq([i \in 1..Len(node.clients) |-> node.clients[i].client_head_count])
    /\ \A k \in DOMAIN node.month_total.shifts :
          node.month_total.shifts[k]
              = SumSeq([i \in 1..Len(node.clients) |-> node.clients[i].shifts[k]])
    /\ \A i \in 1..Len(node.clients) : ClientTotalsAddUp(node.clients[i])

\* C27: in every summary response, for every month, a department's totals are the
\* sums over its employee entries, a client's totals the sums over its departments,
\* and month_total (allowance, per-shift totals, head count) the sums over the
\* clients the month lists, which are the clients the headcount filter kept.
C27_TotalsAddUpAtEveryLevel ==
    (resp.svc = "summary" /\ resp.kind = "ok") =>
        \A mi \in 1..Len(resp.periods) : MonthTotalsAddUp(resp.periods[mi])

\* a response from which the headcount filter removed one stored client and kept
\* another one, which has an allowance
C27_Witness ==
    /\ resp.svc = "summary" /\ resp.kind = "ok"
    /\ req.payload.headcounts # PyStr(ALL)
    /\ \E mi \in 1..Len(resp.periods) :
          /\ Len(resp.periods[mi].clients) = 1
          /\ resp.periods[mi].month_total.total_allowance > 0
          /\ \E k \in 1..Len(rows) :
                rows[k].client # resp.periods[mi].clients[1].client_name

(***************************************************************************)
(* client_summary_download_service with the export directory: the handler  *)
(* run without interruption, for requests of default shape that differ in  *)
(* their departments, shifts or headcounts.                                *)
(***************************************************************************)
DownloadedPath(path, hit) ==
    [svc |-> "download_file", kind |-> "ok", error |-> "", path |-> path, from_cache |-> hit]

\* lines 446-545: the summary is computed, the file written to the path of the
\* request and the path cached under the key of the request
DownloadWrite(payload, out, fs, latest_ym, shift_sig) ==
    IF DownloadRaises(payload, out.resp)
    THEN [resp |-> DownloadError(out.resp.error), cache |-> out.cache, files |-> fs]
    ELSE [resp |-> DownloadedPath(download_final_path(payload), FALSE),
          cache |-> CacheSet(out.cache, download_cache_key(payload),
                             ExcelEntry(payload, download_final_path(payload), latest_ym,
                                        shift_sig)),
          files |-> _atomic_write_excel(fs, download_final_path(payload),
                                        ExportContent(payload, out.resp), 0)]

\* client_summary_download_service(db, payload): [resp, cache, files]
download_with_files(payload, rs, rateTable, keysCfg, todayYM, c, fs) ==
    IF DownloadHit(payload, rs, keysCfg, c, fs)
    THEN [resp |-> DownloadedPath(CacheGet(c, download_cache_key(payload)).file_path, TRUE),
          cache |-> c, files |-> fs]
    ELSE DownloadWrite(payload,
                       client_summary_service(payload, rs, rateTable, keysCfg, todayYM, c),
                       fs, _get_db_latest_ym(rs), _current_shift_signature(keysCfg))

ExportRows == {Row(E1, C1, D1, ShiftA, 1, AggPeriod)}

\* requests of default shape: no years, months, clients, emp_id or client_partner
DefaultShapePayloads ==
    {SummaryPayload(PyStr(ALL), "", "", <<>>, <<>>),
     SummaryPayload(PyList(<<Str(<<"2">>)>>), "", "", <<>>, <<>>),
     [SummaryPayload(PyStr(ALL), "", "", <<>>, <<>>) EXCEPT !.departments = PyList(<<D2>>)],
     [SummaryPayload(PyStr(ALL), "", "", <<>>, <<>>) EXCEPT !.shifts = PyList(<<ShiftB>>)]}

InitExport ==
    /\ rows = <<>>
    /\ rates = AggRates
    /\ shiftKeys = AggShiftKeys
    /\ today = AggToday
    /\ cache = {}
    /\ req = NoReq
    /\ resp = NoResp
    /\ files = {}
    /\ workers = NoWorkers
    /\ uploaded_files = <<>>

StoreExportRow == StoreRow(ExportRows)

\* POST /client-summary/download
DownloadFileRequest ==
    /\ resp = NoResp
    /\ \E payload \in DefaultShapePayloads :
        \E out \in {download_with_files(payload, rows, rates, shiftKeys, today, cache,
                                        files)} :
            /\ req' = [svc |-> "download", payload |-> payload]
            /\ resp' = out.resp
            /\ cache' = out.cache
            /\ files' = out.files
    /\ UNCHANGED <<rows, rates, shiftKeys, today, workers, uploaded_files>>

NextExport ==
    \/ StoreExportRow
    \/ DownloadFileRequest
    \/ Deliver

SpecExport == InitExport /\ [][NextExport]_vars

\* C28: whatever default-shape download requests came before, a download answered
\* from the cache returns a path whose file was last written for the departments,
\* shifts and headcounts of this request.
C28_CachedPathHoldsTheFileOfTheRequest ==
    (resp.svc = "download_file" /\ resp.from_cache) =>
        FileAt(files, resp.path).content.filters = latest_month_cache_key(req.payload)

(***************************************************************************)
(* process_excel_upload with its uploaded_files record.  The call is cut   *)
(* at its commits: the record is created (line 71), the valid rows are     *)
(* saved (line 117), and the call ends with the status of the record       *)
(* committed (lines 127, 139, 150, 156).  An uploaded file is [filename    *)
(* (its extension), columns (TRUE when no required column is missing),     *)
(* records (the rows that pass validate_excel_data), invalid (the number   *)
(* of rows that do not)].                                                  *)
(***************************************************************************)
MaxUploads == 3

ExcelFile(extension, columns, records, invalid) ==
    [filename |-> <<"f", ".">> \o extension, columns |-> columns, records |-> records,
     invalid |-> invalid]

\* file.filename.endswith((".xls", ".xlsx"))
is_excel_filename(filename) ==
    \/ Len(filename) >= 4 /\ SubSeq(filename, Len(filename) - 3, Len(filename))
                                 = <<".", "x", "l", "s">>
    \/ Len(filename) >= 5 /\ SubSeq(filename, Len(filename) - 4, Len(filename))
                                 = <<".", "x", "l", "s", "x">>

\* lines 64-71: UploadedFiles(filename=..., status="processing"); db.add; db.commit
new_uploaded_file(ufs, filename) ==
    Append(ufs, [filename |-> filename, status |-> "processing", record_count |-> 0])

\* the status is assigned and never committed
set_status_uncommitted(ufs, id, status, record_count) == ufs

\* uploaded_file.status = ...; uploaded_file.record_count = ...; db.commit()
set_status(ufs, id, status, record_count) ==
    [ufs EXCEPT ![id].status = status, ![id].record_count = record_count]

UploadCall(file, id, pc, before, inserted) ==
    [svc |-> "upload_call", file |-> file, id |-> id, pc |-> pc, before |-> before,
     inserted |-> inserted]

\* the call returns (200) or raises (400, 500)
UploadEnded(status_code, inserted) ==
    [svc |-> "upload_call", kind |-> IF status_code = 200 THEN "ok" ELSE "error",
     status_code |-> status_code, records |-> inserted]

CallRecords ==
    {UploadRecord(E1, C1, YM(2025, 1), YM(2025, 2), 1),
     UploadRecord(E1, C1, YM(2025, 1), YM(2025, 2), 3),
     UploadRecord(E2, C1, YM(2025, 1), YM(2025, 2), 1)}

CallFiles ==
    {ExcelFile(<<"t", "x", "t">>, TRUE, <<>>, 0),
     ExcelFile(<<"x", "l", "s">>, FALSE, <<>>, 0)}
    \cup {ExcelFile(<<"x", "l", "s", "x">>, TRUE, records, invalid) :
             records \in UNION {[1..n -> CallRecords] : n \in 0..MaxBatch},
             invalid \in {0, 1}}

InitCall ==
    /\ rows = <<>>
    /\ rates = AggRates
    /\ shiftKeys = AggShiftKeys
    /\ today = AggToday
    /\ cache = {}
    /\ req = NoReq
    /\ resp = NoResp
    /\ files = {}
    /\ workers = NoWorkers
    /\ uploaded_files = <<>>

\* lines 58-72: POST /upload/ arrives; a file of another extension is turned down
\* before any record is made
UploadBegin ==
    /\ resp = NoResp
    /\ req = NoReq
    /\ Len(uploaded_files) < MaxUploads
    /\ \E file \in CallFiles :
        IF is_excel_filename(file.filename)
        THEN /\ uploaded_files' = new_uploaded_file(uploaded_files, file.filename)
             /\ req' = UploadCall(file, Len(uploaded_files) + 1, "read", rows, 0)
             /\ resp' = resp
        ELSE /\ req' = UploadCall(file, 0, "ended", rows, 0)
             /\ resp' = UploadEnded(400, 0)
             /\ uploaded_files' = uploaded_files
    /\ UNCHANGED <<rows, rates, shiftKeys, today, cache, files, workers>>

\* lines 147-157: db.rollback(); uploaded_file.status = "failed"; db.commit(); raise
UploadRaise(status_code) ==
    /\ uploaded_files' = set_status(uploaded_files, req.id, "failed",
                                    uploaded_files[req.id].record_count)
    /\ req' = [req EXCEPT !.pc = "ended"]
    /\ resp' = UploadEnded(status_code, 0)

\* lines 75-118: the file is read and validated and its valid rows are inserted and
\* committed; a missing column raises 400, a rejected insert is rolled back
UploadSave ==
    /\ req.svc = "upload_call" /\ req.pc = "read"
    /\ IF ~req.file.columns
       THEN UploadRaise(400) /\ rows' = rows
       ELSE IF ~bulk_save_objects(rows, req.file.records).ok
       THEN UploadRaise(500) /\ rows' = rows
       ELSE /\ rows' = bulk_save_objects(rows, req.file.records).table
            /\ req' = [req EXCEPT !.pc = "saved", !.inserted = Len(req.file.records)]
            /\ UNCHANGED <<resp, uploaded_files>>
    /\ UNCHANGED <<rates, shiftKeys, today, cache, files, workers>>

\* os.path.join(TEMP_FOLDER, error_filename)
error_path(id) == [kind |-> "error", hash |-> {}, n |-> id]

\* lines 120-145: the rows that failed validation are written to the error file and
\* the record is marked partially_processed; without such rows it is marked processed
UploadReport ==
    /\ req.svc = "upload_call" /\ req.pc = "saved"
    /\ files' = IF req.file.invalid > 0
                THEN files \cup {[path |-> error_path(req.id), content |-> req.file.invalid,
                                  complete |-> TRUE]}
                ELSE files
    /\ uploaded_files' = set_status(uploaded_files, req.id,
                                    IF req.file.invalid > 0 THEN "partially_processed"
                                    ELSE "processed",
                                    req.inserted)
    /\ req' = [req EXCEPT !.pc = "ended"]
    /\ resp' = UploadEnded(200, req.inserted)
    /\ UNCHANGED <<rows, rates, shiftKeys, today, cache, workers>>

\* line 123: error_df.to_excel(error_path) raises (the folder cannot be written);
\* lines 153-157: the rollback finds nothing to undo, the rows were committed
UploadReportFails ==
    /\ req.svc = "upload_call" /\ req.pc = "saved"
    /\ req.file.invalid > 0
    /\ UploadRaise(500)
    /\ UNCHANGED <<rows, rates, shiftKeys, today, cache, files, workers>>

NextCall ==
    \/ UploadBegin
    \/ UploadSave
    \/ UploadReport
    \/ UploadReportFails
    \/ Deliver

SpecCall == InitCall /\ [][NextCall]_vars

TerminalStatuses == {"processed", "partially_processed", "failed"}

\* C29: a call that passes the extension check adds one uploaded_files record, which
\* is in "processing" only while that call runs; when the call has ended the record
\* is "processed" or "partially_processed" if the call returned and "failed" if it
\* raised.
C29_UploadEndsInOneTerminalStatus ==
    /\ \A i \in 1..Len(uploaded_files) :
          uploaded_files[i].status \notin TerminalStatuses =>
              /\ uploaded_files[i].status = "processing"
              /\ req.svc = "upload_call" /\ req.id = i /\ resp = NoResp
    /\ (resp.svc = "upload_call" /\ is_excel_filename(req.file.filename)) =>
          /\ req.id = Len(uploaded_files)
          /\ uploaded_files[req.id].filename = req.file.filename
          /\ resp.kind = "ok" =>
                uploaded_files[req.id].status \in {"processed", "partially_processed"}
          /\ resp.kind = "error" => uploaded_files[req.id].status = "failed"

\* a call has raised and its record is "failed", after calls that ended "processed"
\* and "partially_processed"
C29_Witness ==
    /\ resp.svc = "upload_call" /\ resp.kind = "error"
    /\ Len(uploaded_files) = MaxUploads
    /\ uploaded_files[MaxUploads].status = "failed"
    /\ {uploaded_files[i].status : i \in 1..Len(uploaded_files)} = TerminalStatuses

\* C30: when a call of process_excel_upload has raised, the table of allowance
\* records is what it was when the call began.
C30_FailedUploadLeavesTheRowsAlone ==
    (resp.svc = "upload_call" /\ resp.kind = "error") => rows = req.before

====
